---- MODULE Spec2Model ----
(***************************************************************************)
(* Notification composition and fan-out engine of aiaanad/backend:         *)
(* NotificationService, NotificationRepository,                           *)
(* NotificationSettingsRepository and the Celery delivery tasks.           *)
(*                                                                         *)
(* A request handler runs in one database session (unit of work); rows it  *)
(* adds are flushed, and become visible to other sessions only when the    *)
(* unit of work commits after the handler has returned.  Delivery tasks    *)
(* run in worker processes, each in a session of its own.                  *)
(***************************************************************************)
EXTENDS Integers, Sequences, FiniteSets, Bags, TLC

(***************************************************************************)
(* Bounds of the model.                                                    *)
(***************************************************************************)
MaxNotifications == 2
MaxInFlight == 1
MaxParticipants == 2
MaxClock == 1
MaxChannels == 2

(***************************************************************************)
(* Optional values: Python's None and a present value.                     *)
(***************************************************************************)
None == << >>
Some(x) == << x >>

Users == {1, 2}

(***************************************************************************)
(* notifications/channels.py                                               *)
(***************************************************************************)
EMAIL == "email"
TELEGRAM == "telegram"
IN_APP == "in-app"
NotificationChannel == {EMAIL, TELEGRAM, IN_APP}

\* a channel name outside the enum, as a caller of the service may pass one
UNKNOWN_CHANNEL == "sms"
ChannelNames == NotificationChannel \cup {UNKNOWN_CHANNEL}

(***************************************************************************)
(* services/notification_tasks.py: the registry of delivery tasks.         *)
(***************************************************************************)
CHANNEL_TASKS ==
    (IN_APP :> "send_notification_task") @@ (TELEGRAM :> "send_telegram_notification")

(***************************************************************************)
(* Delivery codes returned by the send operations.                         *)
(***************************************************************************)
FULL == 200
PARTIAL == 202

(***************************************************************************)
(* Template registry (notifications/templates.py).  A format string is a   *)
(* sequence of tokens, a literal text or a named placeholder.              *)
(***************************************************************************)
Lit(s) == [kind |-> "lit", text |-> s]
Ph(f) == [kind |-> "ph", text |-> f]

list_notification_templates ==
    ("system_alert" :>
        [title |-> << Lit("System alert") >>,
         body |-> << Ph("message") >>,
         required |-> << "message" >>])
    @@
    ("project_announcement" :>
        [title |-> << Lit("Project announcement") >>,
         body |-> << Lit("New announcement in project "), Ph("project_name"),
                     Lit(": "), Ph("message") >>,
         required |-> << "project_name", "message" >>])

PayloadFields == {"project_name", "message"}

\* str.format(**payload) on a tokenised format string
Format(fmt, payload) ==
    [i \in DOMAIN fmt |->
        IF fmt[i].kind = "ph" THEN payload[fmt[i].text] ELSE fmt[i].text]

\* an unknown key or a missing field rendered as empty text
_render_template_lenient(template_key, payload) ==
    [ok |-> TRUE, error |-> "", detail |-> << >>, title |-> << >>, body |-> << >>]

\* the error names the first missing field only
_render_template_first_missing(template_key, payload) ==
    IF template_key \notin DOMAIN list_notification_templates
    THEN [ok |-> FALSE, error |-> "ValidationError: Unknown template key",
          detail |-> << "Unknown template key", template_key >>,
          title |-> << >>, body |-> << >>]
    ELSE LET template == list_notification_templates[template_key]
             missing == SelectSeq(template.required,
                                  LAMBDA field : field \notin DOMAIN payload)
         IN  IF missing # << >>
             THEN [ok |-> FALSE, error |-> "ValidationError: Missing payload fields",
                   detail |-> << "Missing payload fields", template_key,
                                 << missing[1] >> >>,
                   title |-> << >>, body |-> << >>]
             ELSE [ok |-> TRUE, error |-> "", detail |-> << >>,
                   title |-> Format(template.title, payload),
                   body |-> Format(template.body, payload)]

\* NotificationService._render_template
_render_template(template_key, payload) ==
    IF template_key \notin DOMAIN list_notification_templates
    THEN [ok |-> FALSE, error |-> "ValidationError: Unknown template key",
          detail |-> << "Unknown template key", template_key >>,
          title |-> << >>, body |-> << >>]
    ELSE LET template == list_notification_templates[template_key]
             missing == SelectSeq(template.required,
                                  LAMBDA field : field \notin DOMAIN payload)
         IN  IF missing # << >>
             THEN [ok |-> FALSE, error |-> "ValidationError: Missing payload fields",
                   detail |-> << "Missing payload fields", template_key, missing >>,
                   title |-> << >>, body |-> << >>]
             ELSE [ok |-> TRUE, error |-> "", detail |-> << >>,
                   title |-> Format(template.title, payload),
                   body |-> Format(template.body, payload)]

(***************************************************************************)
(* Channel policy.                                                         *)
(***************************************************************************)
Range(s) == {s[i] : i \in DOMAIN s}

\* an empty list returned as it is
_normalize_channels_empty_kept(channels) ==
    IF channels = None
    THEN [ok |-> TRUE, value |-> << IN_APP >>, unknown |-> {}]
    ELSE LET normalized == channels[1]
             unknown == Range(normalized) \ NotificationChannel
         IN  IF unknown # {}
             THEN [ok |-> FALSE, value |-> << >>, unknown |-> unknown]
             ELSE [ok |-> TRUE, value |-> normalized, unknown |-> {}]

\* the error names the first unknown entry only
_normalize_channels_first_unknown(channels) ==
    IF channels = None \/ channels[1] = << >>
    THEN [ok |-> TRUE, value |-> << IN_APP >>, unknown |-> {}]
    ELSE LET normalized == channels[1]
             unknown == SelectSeq(normalized, LAMBDA c : c \notin NotificationChannel)
         IN  IF unknown # << >>
             THEN [ok |-> FALSE, value |-> << >>, unknown |-> {unknown[1]}]
             ELSE [ok |-> TRUE, value |-> normalized, unknown |-> {}]

\* NotificationService._normalize_channels; channels is None or Some(list).
\* unknown holds the names the message of the ValidationError lists,
\* sorted(set(normalized) - allowed).
_normalize_channels(channels) ==
    IF channels = None \/ channels[1] = << >>
    THEN [ok |-> TRUE, value |-> << IN_APP >>, unknown |-> {}]
    ELSE LET normalized == channels[1]
             unknown == Range(normalized) \ NotificationChannel
         IN  IF unknown # {}
             THEN [ok |-> FALSE, value |-> << >>, unknown |-> unknown]
             ELSE [ok |-> TRUE, value |-> normalized, unknown |-> {}]

\* the channel_settings dictionary built from a settings row; .get(channel, False)
channel_settings(settings_row, channel) ==
    CASE channel = IN_APP -> settings_row.in_app_enabled
      [] channel = TELEGRAM -> settings_row.telegram_enabled
      [] channel = EMAIL -> settings_row.email_enabled
      [] OTHER -> FALSE

\* the filter left out: every requested channel is kept
_filter_allowed_channels_all(channels, settings_row) == channels

\* a name without a flag taken as allowed: .get(channel, True)
_filter_allowed_channels_default_true(channels, settings_row) ==
    SelectSeq(channels, LAMBDA channel : \/ channel \notin NotificationChannel
                                         \/ channel_settings(settings_row, channel))

\* NotificationService._filter_allowed_channels
_filter_allowed_channels(channels, settings_row) ==
    SelectSeq(channels, LAMBDA channel : channel_settings(settings_row, channel))

(***************************************************************************)
(* Settings store.                                                         *)
(***************************************************************************)
\* column defaults of a NotificationSettings row
DefaultSettings ==
    [in_app_enabled |-> TRUE, telegram_enabled |-> TRUE, email_enabled |-> TRUE]

SettingsFields == {"in_app_enabled", "telegram_enabled", "email_enabled"}

\* NotificationSettingsRepository.get_or_create on table tbl
get_or_create(tbl, user_id) ==
    IF tbl[user_id] # None
    THEN [row |-> tbl[user_id][1], table |-> tbl]
    ELSE [row |-> DefaultSettings,
          table |-> [tbl EXCEPT ![user_id] = Some(DefaultSettings)]]

\* the fields not in the update set back to their defaults
update_by_user_id_replace(tbl, user_id, update_data) ==
    LET got == get_or_create(tbl, user_id)
        row == [f \in SettingsFields |->
                   IF f \in DOMAIN update_data THEN update_data[f]
                   ELSE DefaultSettings[f]]
    IN  [row |-> row, table |-> [got.table EXCEPT ![user_id] = Some(row)]]

\* NotificationSettingsRepository.update_by_user_id
update_by_user_id(tbl, user_id, update_data) ==
    LET got == get_or_create(tbl, user_id)
        row == [f \in SettingsFields |->
                   IF f \in DOMAIN update_data THEN update_data[f] ELSE got.row[f]]
    IN  [row |-> row, table |-> [got.table EXCEPT ![user_id] = Some(row)]]

(***************************************************************************)
(* State.                                                                  *)
(*   notifications  the notifications table; the id of a row is its index  *)
(*                  (uuid4 gives every row a fresh id)                     *)
(*   uncommitted    ids of rows flushed by the send request whose unit of  *)
(*                  work has not committed yet; other sessions do not see  *)
(*                  them                                                   *)
(*   settings       the notification_settings table, one optional row per  *)
(*                  user                                                   *)
(*   queue          delivery tasks waiting in the Celery queue (a bag)     *)
(*   enqueued       every delivery task ever handed to Celery (a bag)      *)
(*   result         what the last call of the API returned or raised       *)
(*   sessions       the read-tracking requests in progress: the rows each  *)
(*                  has loaded and changed in its session, not yet flushed *)
(*   settings_rows  the rows of the notification_settings table one by     *)
(*                  one, each with the open transaction that inserted it   *)
(*   callers        the transactions calling get_or_create: where each is  *)
(***************************************************************************)
VARIABLES notifications, uncommitted, settings, queue, enqueued, result, sessions,
          settings_rows, callers

vars == << notifications, uncommitted, settings, queue, enqueued, result, sessions,
          settings_rows, callers >>

Ids == 1..Len(notifications)

\* rows another session can read
Visible == Ids \ uncommitted

Result(op, error, code, value) ==
    [op |-> op, error |-> error, code |-> code, value |-> value]

Task(name, notification_id) == [task |-> name, notification_id |-> notification_id]

(***************************************************************************)
(* Notification store (repository/notification_repository.py).  hidden is  *)
(* the set of ids the calling session cannot see.                          *)
(***************************************************************************)
\* BaseRepository.get_by_id
get_by_id(tbl, hidden, notification_id) ==
    IF notification_id \in (DOMAIN tbl) \ hidden
    THEN Some(tbl[notification_id])
    ELSE None

\* read_at stamped on every call
mark_read_restamp(tbl, hidden, user_id, notification_id, t) ==
    LET notification == get_by_id(tbl, hidden, notification_id)
    IN  IF notification = None
        THEN [found |-> None, table |-> tbl]
        ELSE IF notification[1].recipient_id # user_id
        THEN [found |-> None, table |-> tbl]
        ELSE LET row == [notification[1] EXCEPT
                            !.read_at = Some(t), !.status = "read"]
             IN  [found |-> Some(row),
                  table |-> [tbl EXCEPT ![notification_id] = row]]

\* the ownership check left out
mark_read_any_owner(tbl, hidden, user_id, notification_id, t) ==
    LET notification == get_by_id(tbl, hidden, notification_id)
    IN  IF notification = None
        THEN [found |-> None, table |-> tbl]
        ELSE LET row == [notification[1] EXCEPT
                            !.read_at = IF @ = None THEN Some(t) ELSE @,
                            !.status = "read"]
             IN  [found |-> Some(row),
                  table |-> [tbl EXCEPT ![notification_id] = row]]

\* read_at stamped, the status left as it is
mark_read_stamp_only(tbl, hidden, user_id, notification_id, t) ==
    LET notification == get_by_id(tbl, hidden, notification_id)
    IN  IF notification = None
        THEN [found |-> None, table |-> tbl]
        ELSE IF notification[1].recipient_id # user_id
        THEN [found |-> None, table |-> tbl]
        ELSE LET row == [notification[1] EXCEPT
                            !.read_at = IF @ = None THEN Some(t) ELSE @]
             IN  [found |-> Some(row),
                  table |-> [tbl EXCEPT ![notification_id] = row]]

\* NotificationRepository.mark_read
mark_read(tbl, hidden, user_id, notification_id, t) ==
    LET notification == get_by_id(tbl, hidden, notification_id)
    IN  IF notification = None
        THEN [found |-> None, table |-> tbl]
        ELSE IF notification[1].recipient_id # user_id
        THEN [found |-> None, table |-> tbl]
        ELSE LET row == [notification[1] EXCEPT
                            !.read_at = IF @ = None THEN Some(t) ELSE @,
                            !.status = "read"]
             IN  [found |-> Some(row),
                  table |-> [tbl EXCEPT ![notification_id] = row]]

\* every selected row counted and stamped, read or not
mark_all_read_every_row(tbl, hidden, user_id, t) ==
    LET selected == {i \in (DOMAIN tbl) \ hidden : tbl[i].recipient_id = user_id}
    IN  [updated |-> Cardinality(selected),
         table |-> [i \in DOMAIN tbl |->
                       IF i \in selected
                       THEN [tbl[i] EXCEPT !.read_at = Some(t), !.status = "read"]
                       ELSE tbl[i]]]

\* read_at stamped, the status left as it was
mark_all_read_stamp_only(tbl, hidden, user_id, t) ==
    LET selected == {i \in (DOMAIN tbl) \ hidden : tbl[i].recipient_id = user_id}
        unread == {i \in selected : tbl[i].read_at = None}
    IN  [updated |-> Cardinality(unread),
         table |-> [i \in DOMAIN tbl |->
                       IF i \in unread
                       THEN [tbl[i] EXCEPT !.read_at = Some(t)]
                       ELSE tbl[i]]]

\* NotificationRepository.mark_all_read
mark_all_read(tbl, hidden, user_id, t) ==
    LET selected == {i \in (DOMAIN tbl) \ hidden : tbl[i].recipient_id = user_id}
        unread == {i \in selected : tbl[i].read_at = None}
    IN  [updated |-> Cardinality(unread),
         table |-> [i \in DOMAIN tbl |->
                       IF i \in unread
                       THEN [tbl[i] EXCEPT !.read_at = Some(t), !.status = "read"]
                       ELSE tbl[i]]]

\* sent_at stamped on every update to sent
update_status_restamp(tbl, hidden, notification_id, status, t) ==
    LET notification == get_by_id(tbl, hidden, notification_id)
    IN  IF notification = None
        THEN [found |-> None, table |-> tbl]
        ELSE LET row == [notification[1] EXCEPT
                            !.status = status,
                            !.sent_at = IF status = "sent" THEN Some(t) ELSE @]
             IN  [found |-> Some(row),
                  table |-> [tbl EXCEPT ![notification_id] = row]]

\* the status written to the type of the notification
update_status_as_type(tbl, hidden, notification_id, status, t) ==
    LET notification == get_by_id(tbl, hidden, notification_id)
    IN  IF notification = None
        THEN [found |-> None, table |-> tbl]
        ELSE LET row == [notification[1] EXCEPT !.type = status]
             IN  [found |-> Some(row),
                  table |-> [tbl EXCEPT ![notification_id] = row]]

\* NotificationRepository.update_status
update_status(tbl, hidden, notification_id, status, t) ==
    LET notification == get_by_id(tbl, hidden, notification_id)
    IN  IF notification = None
        THEN [found |-> None, table |-> tbl]
        ELSE LET row == [notification[1] EXCEPT
                            !.status = status,
                            !.sent_at = IF status = "sent" /\ @ = None
                                        THEN Some(t) ELSE @]
             IN  [found |-> Some(row),
                  table |-> [tbl EXCEPT ![notification_id] = row]]

\* the Notification(**data) object built from the data dictionary of a send
NewNotification(id, recipient_id, sender_id, project_id, template_key, title, body, channels) ==
    [id |-> id, recipient_id |-> recipient_id, sender_id |-> sender_id,
     project_id |-> project_id, type |-> template_key, status |-> "pending",
     title |-> title, body |-> body, channels |-> channels,
     sent_at |-> None, read_at |-> None]

\* one task for every entry of the list, a repeated channel included
_dispatch_notification_per_entry(notification_id, channels, settings_row) ==
    LET Eligible(c) == channel_settings(settings_row, c) /\ c \in DOMAIN CHANNEL_TASKS
        eligible == {c \in Range(channels) : Eligible(c)}
    IN  [task \in {Task(CHANNEL_TASKS[c], notification_id) : c \in eligible} |->
            Cardinality({i \in DOMAIN channels :
                            /\ Eligible(channels[i])
                            /\ Task(CHANNEL_TASKS[channels[i]], notification_id) = task})]

\* a task for every channel the settings enable, listed or not
_dispatch_notification_every_enabled(notification_id, channels, settings_row) ==
    SetToBag({Task(CHANNEL_TASKS[channel], notification_id) :
                 channel \in {c \in DOMAIN CHANNEL_TASKS :
                                 channel_settings(settings_row, c)}})

\* the in-app task handed over when no channel is left
_dispatch_notification_in_app_default(notification_id, channels, settings_row) ==
    SetToBag({Task(CHANNEL_TASKS[channel], notification_id) :
                 channel \in (IF channels = << >> THEN {IN_APP}
                              ELSE Range(channels) \cap DOMAIN CHANNEL_TASKS)})

(***************************************************************************)
(* NotificationService._dispatch_notification: the bag of tasks it hands   *)
(* to Celery for one notification.  It iterates set(channels).             *)
(***************************************************************************)
_dispatch_notification(notification_id, channels, settings_row) ==
    SetToBag({Task(CHANNEL_TASKS[channel], notification_id) :
                 channel \in {c \in Range(channels) :
                                 /\ channel_settings(settings_row, c)
                                 /\ c \in DOMAIN CHANNEL_TASKS}})

(***************************************************************************)
(* Inputs of the calls.                                                    *)
(***************************************************************************)
SeqsUpTo(S, n) == UNION {[1..k -> S] : k \in 0..n}

\* the channels argument: absent, or a list of channel names
RequestedChannels ==
    {None} \cup {Some(s) : s \in SeqsUpTo(NotificationChannel, MaxChannels)}
           \cup {Some(<< UNKNOWN_CHANNEL >>), Some(<< IN_APP, UNKNOWN_CHANNEL >>)}

TemplateKeys == DOMAIN list_notification_templates \cup {"no_such_template"}
PayloadValues == {"Alpha"}
Payloads == UNION {[F -> PayloadValues] : F \in SUBSET PayloadFields}

SenderIds == {None, Some(2)}
ProjectIds == {None, Some(42)}

\* what the project and participation repositories answer for a project id
Projects == {None} \cup {Some([author_id |-> a]) : a \in Users}
ParticipantLists == SeqsUpTo(Users, MaxParticipants)

\* the partial update of a settings PATCH: the fields set in the request
SettingsUpdates == UNION {[F -> BOOLEAN] : F \in SUBSET SettingsFields}

\* the orders in which a Python set of recipients may be iterated
Orders(S) ==
    {o \in [1..Cardinality(S) -> S] : \A i, j \in DOMAIN o : i # j => o[i] # o[j]}

Times == 0..MaxClock

\* the read-tracking requests that can be in progress at the same time, and
\* the session of one: where the request is, the rows its session has
\* loaded, and the same rows as the request changed them in memory
Requests == {"mark_read", "mark_all_read"}
Session(pc, loaded, changed) == [pc |-> pc, loaded |-> loaded, changed |-> changed]
NoSessions == [r \in Requests |-> Session("idle", << >>, << >>)]

\* the callers of get_or_create, each in a transaction of its own, and where
\* a caller is: the user it is creating a row for, the users it has got a
\* row for
Callers ==
    {"get_settings", "update_settings", "send_to_user",
     "send_to_project_participants", "send_telegram_notification"}
Caller(pc, user_id, got) == [pc |-> pc, user_id |-> user_id, got |-> got]
NoCallers == [c \in Callers |-> Caller("idle", None, {})]

(***************************************************************************)
(* Init: empty tables, empty queue.                                        *)
(***************************************************************************)
Init ==
    /\ notifications = << >>
    /\ uncommitted = {}
    /\ settings = [u \in Users |-> None]
    /\ queue = EmptyBag
    /\ enqueued = EmptyBag
    /\ result = Result("init", "", 0, << >>)
    /\ sessions = NoSessions
    /\ settings_rows = << >>
    /\ callers = NoCallers

(***************************************************************************)
(* The send operations of NotificationService, as functions of the tables  *)
(* they read.  An outcome holds the error raised (if any), the delivery    *)
(* code, the rows created, the settings table and the tasks handed to      *)
(* Celery.  A call that raises leaves nothing behind: the unit of work     *)
(* rolls the session back.                                                 *)
(***************************************************************************)
Raised(error, stg) ==
    [error |-> error, code |-> 0, created |-> << >>, settings |-> stg,
     dispatched |-> EmptyBag]

\* FULL as soon as one channel is left
status_code_any(allowed_channels, normalized_channels) ==
    IF Len(allowed_channels) > 0 THEN FULL ELSE PARTIAL

\* the status code of send_to_user
status_code(allowed_channels, normalized_channels) ==
    IF Len(allowed_channels) = Len(normalized_channels) THEN FULL ELSE PARTIAL

\* NotificationService.send_to_user; tbl and stg are the notifications and
\* the settings table
send_to_user(tbl, stg, recipient_id, sender_id, template_key, payload, project_id, channels) ==
    LET normalized_channels == _normalize_channels(channels)
        got == get_or_create(stg, recipient_id)
        allowed_channels == _filter_allowed_channels(normalized_channels.value, got.row)
        rendered == _render_template(template_key, payload)
        id == Len(tbl) + 1
        notification == NewNotification(id, recipient_id, sender_id, project_id,
                            template_key, rendered.title, rendered.body,
                            allowed_channels)
    IN  IF ~normalized_channels.ok
        THEN Raised("ValidationError: Unknown notification channels", stg)
        ELSE IF ~rendered.ok
        THEN Raised(rendered.error, stg)
        ELSE [error |-> "",
              code |-> status_code(allowed_channels, normalized_channels.value),
              created |-> << notification >>,
              settings |-> got.table,
              dispatched |-> _dispatch_notification(id, allowed_channels, got.row)]

\* include_author ignored: the author is always added
project_recipients_with_author(participant_ids, author_id, include_author) ==
    Range(participant_ids) \cup {author_id}

\* the author notified when there is no participant
project_recipients_author_by_default(participant_ids, author_id, include_author) ==
    Range(participant_ids)
        \cup (IF include_author \/ participant_ids = << >> THEN {author_id} ELSE {})

\* the recipients of a project fan-out
project_recipients(participant_ids, author_id, include_author) ==
    Range(participant_ids) \cup (IF include_author THEN {author_id} ELSE {})

\* every recipient filtered by the settings of the first user
recipient_channels_first_settings(normalized_channels, stg, recipient_id) ==
    _filter_allowed_channels(normalized_channels, get_or_create(stg, 1).row)

\* the allowed channels of one recipient of a fan-out: the settings row is
\* loaded or created for that recipient, the shared channel list filtered by it
recipient_channels(normalized_channels, stg, recipient_id) ==
    _filter_allowed_channels(normalized_channels, get_or_create(stg, recipient_id).row)

\* a fan-out never reports a suppressed channel
project_status_code_full(allowed_lists, normalized_channels) == FULL

\* PARTIAL only when every recipient has a channel suppressed
project_status_code_all(allowed_lists, normalized_channels) ==
    IF /\ allowed_lists # << >>
       /\ \A i \in DOMAIN allowed_lists :
             Len(allowed_lists[i]) < Len(normalized_channels)
    THEN PARTIAL ELSE FULL

\* the status code of send_to_project_participants: channels_disabled is set
\* as soon as one recipient's allowed list is shorter than the normalized list
project_status_code(allowed_lists, normalized_channels) ==
    IF \E i \in DOMAIN allowed_lists :
          Len(allowed_lists[i]) < Len(normalized_channels)
    THEN PARTIAL ELSE FULL

\* a project that does not resolve treated as a project without recipients
send_to_project_participants_missing_as_empty(tbl, stg, project_id, project, participant_ids, sender_id, template_key, payload, include_author, channels, order) ==
    [error |-> "", code |-> FULL, created |-> << >>, settings |-> stg,
     dispatched |-> EmptyBag]

\* NotificationService.send_to_project_participants; project and
\* participant_ids are the answers of the project repositories, order the
\* order in which the set of recipients is iterated
send_to_project_participants(tbl, stg, project_id, project, participant_ids, sender_id, template_key, payload, include_author, channels, order) ==
    LET normalized_channels == _normalize_channels(channels)
        rendered == _render_template(template_key, payload)
        n == Len(tbl)
        table == [u \in Users |->
                     IF u \in Range(order)
                     THEN Some(get_or_create(stg, u).row)
                     ELSE stg[u]]
        allowed(i) == recipient_channels(normalized_channels.value, stg, order[i])
        notifications_data ==
            [i \in DOMAIN order |->
                NewNotification(n + i, order[i], sender_id, project_id,
                    template_key, rendered.title, rendered.body, allowed(i))]
        dispatched(i) ==
            _dispatch_notification(n + i, notifications_data[i].channels,
                                   table[order[i]][1])
    IN  IF ~normalized_channels.ok
        THEN Raised("ValidationError: Unknown notification channels", stg)
        ELSE IF project = None
        THEN Raised("NotFoundError: Project not found", stg)
        ELSE IF order = << >>
        THEN [error |-> "", code |-> FULL, created |-> << >>, settings |-> stg,
              dispatched |-> EmptyBag]
        ELSE IF ~rendered.ok
        THEN Raised(rendered.error, stg)
        ELSE [error |-> "",
              code |-> project_status_code([i \in DOMAIN order |-> allowed(i)],
                                           normalized_channels.value),
              created |-> notifications_data,
              settings |-> table,
              dispatched |-> BagUnion({dispatched(i) : i \in DOMAIN order})]

\* the iteration orders of the recipients of a project call
RecipientOrders(project, participant_ids, include_author) ==
    IF project = None
    THEN {<< >>}
    ELSE Orders(project_recipients(participant_ids, project[1].author_id,
                                   include_author))

\* the handler of a send request returns: its rows are flushed, its tasks
\* are in the queue, its unit of work has not committed yet
Returned(op, out) ==
    /\ notifications' = notifications \o out.created
    /\ uncommitted' = {out.created[i].id : i \in DOMAIN out.created}
    /\ settings' = out.settings
    /\ queue' = queue (+) out.dispatched
    /\ enqueued' = enqueued (+) out.dispatched
    /\ result' = Result(op, out.error, out.code,
                        [i \in DOMAIN out.created |-> out.created[i].id])
    /\ UNCHANGED << sessions, settings_rows, callers >>

SendToUser(recipient_id, sender_id, template_key, payload, project_id, channels) ==
    /\ uncommitted = {}
    /\ Returned("send_to_user",
                send_to_user(notifications, settings, recipient_id, sender_id,
                             template_key, payload, project_id, channels))

SendToProject(project_id, project, participant_ids, sender_id, template_key, payload, include_author, channels) ==
    /\ uncommitted = {}
    /\ \E order \in RecipientOrders(project, participant_ids, include_author) :
          Returned("send_to_project_participants",
                   send_to_project_participants(notifications, settings,
                       project_id, project, participant_ids, sender_id,
                       template_key, payload, include_author, channels, order))

\* the unit of work of the send request commits after the handler returned
Commit ==
    /\ uncommitted # {}
    /\ uncommitted' = {}
    /\ UNCHANGED << notifications, settings, queue, enqueued, result, sessions, settings_rows, callers >>

(***************************************************************************)
(* Read tracking: NotificationService.mark_read and mark_all_read, each a  *)
(* request with a session of its own, committed when it returns.           *)
(***************************************************************************)
MarkRead(user_id, notification_id, t) ==
    LET marked == mark_read(notifications, uncommitted, user_id, notification_id, t)
    IN  IF marked.found = None
        THEN /\ result' = Result("mark_read", "NotFoundError", 0, << >>)
             /\ UNCHANGED << notifications, uncommitted, settings, queue, enqueued, sessions, settings_rows, callers >>
        ELSE /\ notifications' = marked.table
             /\ result' = Result("mark_read", "", 0, marked.found)
             /\ UNCHANGED << uncommitted, settings, queue, enqueued, sessions, settings_rows, callers >>

MarkAllRead(user_id, t) ==
    LET marked == mark_all_read(notifications, uncommitted, user_id, t)
    IN  /\ notifications' = marked.table
        /\ result' = Result("mark_all_read", "", 0, << marked.updated >>)
        /\ UNCHANGED << uncommitted, settings, queue, enqueued, sessions, settings_rows, callers >>

(***************************************************************************)
(* Read tracking step by step.  A request calls the repository, which      *)
(* loads rows into the session and changes them in memory; when the        *)
(* handler returns, the unit of work flushes the changed attributes and    *)
(* commits.  Another request can run between the two steps.                *)
(***************************************************************************)
Restrict(tbl, S) == [i \in S |-> tbl[i]]

\* the flush of a session: one UPDATE per loaded row, setting the attributes
\* the request changed
flush(tbl, loaded, changed) ==
    [i \in DOMAIN tbl |->
        IF i \in DOMAIN loaded
        THEN [tbl[i] EXCEPT
                 !.read_at = IF changed[i].read_at # loaded[i].read_at
                             THEN changed[i].read_at ELSE @,
                 !.status = IF changed[i].status # loaded[i].status
                            THEN changed[i].status ELSE @]
        ELSE tbl[i]]

\* NotificationService.mark_read is called: the row is loaded and marked in
\* the session, or NotFoundError leaves the handler
MarkReadCalled(user_id, notification_id, t) ==
    LET marked == mark_read(notifications, uncommitted, user_id, notification_id, t)
    IN  /\ sessions["mark_read"].pc = "idle"
        /\ sessions' = [sessions EXCEPT !["mark_read"] =
               IF marked.found = None
               THEN Session("failed", << >>, << >>)
               ELSE Session("loaded",
                            Restrict(notifications, {notification_id}),
                            Restrict(marked.table, {notification_id}))]
        /\ UNCHANGED << notifications, uncommitted, settings, queue, enqueued, result,
                       settings_rows, callers >>

\* NotificationService.mark_all_read is called: the rows of the user are
\* loaded, the unread ones marked in the session
MarkAllReadCalled(user_id, t) ==
    LET marked == mark_all_read(notifications, uncommitted, user_id, t)
        selected == {i \in Visible : notifications[i].recipient_id = user_id}
    IN  /\ sessions["mark_all_read"].pc = "idle"
        /\ sessions' = [sessions EXCEPT !["mark_all_read"] =
               Session("loaded", Restrict(notifications, selected),
                       Restrict(marked.table, selected))]
        /\ UNCHANGED << notifications, uncommitted, settings, queue, enqueued, result,
                       settings_rows, callers >>

\* the handler of request r returned: its unit of work flushes and commits
SessionCommitted(r) ==
    /\ sessions[r].pc = "loaded"
    /\ notifications' = flush(notifications, sessions[r].loaded, sessions[r].changed)
    /\ sessions' = [sessions EXCEPT ![r].pc = "done"]
    /\ UNCHANGED << uncommitted, settings, queue, enqueued, result,
                       settings_rows, callers >>

(***************************************************************************)
(* NotificationSettingsService.get_settings and update_settings.           *)
(***************************************************************************)
GetSettings(user_id) ==
    LET got == get_or_create(settings, user_id)
    IN  /\ settings' = got.table
        /\ result' = Result("get_settings", "", 0, << got.row >>)
        /\ UNCHANGED << notifications, uncommitted, queue, enqueued, sessions, settings_rows, callers >>

UpdateSettings(user_id, update_data) ==
    LET updated == update_by_user_id(settings, user_id, update_data)
    IN  /\ settings' = updated.table
        /\ result' = Result("update_settings", "", 0, << updated.row >>)
        /\ UNCHANGED << notifications, uncommitted, queue, enqueued, sessions, settings_rows, callers >>

(***************************************************************************)
(* get_or_create step by step, over the rows of the table.  A row is       *)
(* [user_id, xid]: xid is None once committed, and the caller whose open   *)
(* transaction inserted it until then.  A transaction sees the committed   *)
(* rows and its own.                                                       *)
(***************************************************************************)
\* NotificationSettingsRepository.get_by_user_id: the rows the select returns
get_by_user_id(rows, caller, user_id) ==
    SelectSeq(rows, LAMBDA row : /\ row.user_id = user_id
                                 /\ row.xid \in {None, Some(caller)})

\* an insert into a table without a unique key
create_without_unique_key(rows, caller, user_id) ==
    [error |-> "", waits |-> FALSE,
     rows |-> Append(rows, [user_id |-> user_id, xid |-> Some(caller)])]

\* BaseRepository.create({"user_id": user_id}) on a table whose user_id is
\* a unique key: the insert waits for an open transaction that inserted
\* the key, and fails when the key is there
create(rows, caller, user_id) ==
    LET same == SelectSeq(rows, LAMBDA row : row.user_id = user_id)
    IN  IF \E i \in DOMAIN same : same[i].xid \notin {None, Some(caller)}
        THEN [error |-> "", waits |-> TRUE, rows |-> rows]
        ELSE IF same # << >>
        THEN [error |-> "IntegrityError", waits |-> FALSE, rows |-> rows]
        ELSE [error |-> "", waits |-> FALSE,
              rows |-> Append(rows, [user_id |-> user_id, xid |-> Some(caller)])]

\* the rows left when the transaction of caller ends
committed(rows, caller) ==
    [i \in DOMAIN rows |->
        IF rows[i].xid = Some(caller) THEN [rows[i] EXCEPT !.xid = None] ELSE rows[i]]
rolled_back(rows, caller) ==
    SelectSeq(rows, LAMBDA row : row.xid # Some(caller))

\* get_or_create(user_id) is called in the transaction of caller: the
\* select finds the row, or the caller goes on to create it
GetOrCreateCalled(caller, user_id) ==
    /\ callers[caller].pc \in {"idle", "open"}
    /\ callers' = [callers EXCEPT ![caller] =
           IF get_by_user_id(settings_rows, caller, user_id) # << >>
           THEN Caller("open", None, @.got \cup {user_id})
           ELSE Caller("creating", Some(user_id), @.got)]
    /\ UNCHANGED << notifications, uncommitted, settings, queue, enqueued, result,
                    sessions, settings_rows >>

\* the insert of get_or_create runs
GetOrCreateCreated(caller) ==
    LET user_id == callers[caller].user_id[1]
        created == create(settings_rows, caller, user_id)
    IN  /\ callers[caller].pc = "creating"
        /\ ~created.waits
        /\ IF created.error # ""
           THEN /\ settings_rows' = rolled_back(settings_rows, caller)
                /\ callers' = [callers EXCEPT ![caller] = Caller("idle", None, {})]
           ELSE /\ settings_rows' = created.rows
                /\ callers' = [callers EXCEPT ![caller] =
                       Caller("open", None, @.got \cup {user_id})]
        /\ UNCHANGED << notifications, uncommitted, settings, queue, enqueued, result,
                        sessions >>

\* the transaction of caller commits: its rows are there for every session
CallerCommitted(caller) ==
    /\ callers[caller].pc = "open"
    /\ settings_rows' = committed(settings_rows, caller)
    /\ settings' = [u \in Users |->
           IF settings[u] = None /\ u \in callers[caller].got
           THEN Some(DefaultSettings) ELSE settings[u]]
    /\ callers' = [callers EXCEPT ![caller] = Caller("idle", None, {})]
    /\ UNCHANGED << notifications, uncommitted, queue, enqueued, result, sessions >>

\* the transaction of caller is rolled back: an exception left the request
CallerRolledBack(caller) ==
    /\ callers[caller].pc \in {"open", "creating"}
    /\ settings_rows' = rolled_back(settings_rows, caller)
    /\ callers' = [callers EXCEPT ![caller] = Caller("idle", None, {})]
    /\ UNCHANGED << notifications, uncommitted, settings, queue, enqueued, result,
                    sessions >>

(***************************************************************************)
(* Delivery workers (services/notification_tasks.py).  A worker takes one  *)
(* task from the queue and runs it to completion in its own session.       *)
(***************************************************************************)
\* what a task leaves: the notifications and settings tables, whether a
\* sender was called, the exception that left the task (if any)
Ran(tbl, stg, attempted) ==
    [table |-> tbl, settings |-> stg, attempted |-> attempted, error |-> ""]

\* the row updated whether or not the worker's session can see it
send_notification_task_unseen(tbl, hidden, stg, notification_id, t) ==
    IF notification_id \notin DOMAIN tbl
    THEN Ran(tbl, stg, FALSE)
    ELSE Ran(update_status(tbl, {}, notification_id, "sent", t).table, stg, FALSE)

\* send_notification_task, the in-app task
send_notification_task(tbl, hidden, stg, notification_id, t) ==
    IF get_by_id(tbl, hidden, notification_id) = None
    THEN Ran(tbl, stg, FALSE)
    ELSE Ran(update_status(tbl, hidden, notification_id, "sent", t).table, stg, FALSE)

\* the channels replaced by the channel delivered
send_telegram_notification_replace(tbl, hidden, stg, notification_id, has_chat_id, success) ==
    LET notification == get_by_id(tbl, hidden, notification_id)
    IN  IF notification = None
        THEN Ran(tbl, stg, FALSE)
        ELSE IF has_chat_id /\ success
        THEN Ran([tbl EXCEPT ![notification_id].channels = << TELEGRAM >>], stg, TRUE)
        ELSE Ran(tbl, stg, has_chat_id)

\* the settings of the recipient not consulted
send_telegram_notification_unconditional(tbl, hidden, stg, notification_id, has_chat_id, success) ==
    LET notification == get_by_id(tbl, hidden, notification_id)
    IN  IF notification = None
        THEN Ran(tbl, stg, FALSE)
        ELSE IF has_chat_id /\ success
        THEN Ran([tbl EXCEPT ![notification_id].channels =
                     IF TELEGRAM \notin Range(@) THEN Append(@, TELEGRAM) ELSE @],
                 stg, TRUE)
        ELSE Ran(tbl, stg, has_chat_id)

\* the channel appended on every successful delivery
send_telegram_notification_append(tbl, hidden, stg, notification_id, has_chat_id, success) ==
    LET notification == get_by_id(tbl, hidden, notification_id)
    IN  IF notification = None
        THEN Ran(tbl, stg, FALSE)
        ELSE LET got == get_or_create(stg, notification[1].recipient_id)
             IN  IF got.row.telegram_enabled /\ has_chat_id /\ success
                 THEN Ran([tbl EXCEPT ![notification_id].channels = Append(@, TELEGRAM)],
                          got.table, TRUE)
                 ELSE Ran(tbl, stg, got.row.telegram_enabled /\ has_chat_id)

\* the channel recorded once the sender was called, whatever it reports
send_telegram_notification_on_attempt(tbl, hidden, stg, notification_id, has_chat_id, success) ==
    LET notification == get_by_id(tbl, hidden, notification_id)
    IN  IF notification = None
        THEN Ran(tbl, stg, FALSE)
        ELSE LET got == get_or_create(stg, notification[1].recipient_id)
                 current_channels == notification[1].channels
             IN  IF got.row.telegram_enabled /\ has_chat_id
                 THEN Ran([tbl EXCEPT ![notification_id].channels =
                              IF TELEGRAM \notin Range(current_channels)
                              THEN Append(current_channels, TELEGRAM)
                              ELSE current_channels],
                          got.table, TRUE)
                 ELSE Ran(tbl, stg, FALSE)

\* send_telegram_notification; has_chat_id: the recipient exists and has a
\* telegram_chat_id; success: what TelegramSender.send_message returns.  The
\* task commits only after a successful send.
send_telegram_notification(tbl, hidden, stg, notification_id, has_chat_id, success) ==
    LET notification == get_by_id(tbl, hidden, notification_id)
    IN  IF notification = None
        THEN Ran(tbl, stg, FALSE)
        ELSE LET got == get_or_create(stg, notification[1].recipient_id)
                 current_channels == notification[1].channels
             IN  IF got.row.telegram_enabled /\ has_chat_id
                 THEN IF success
                      THEN Ran([tbl EXCEPT ![notification_id].channels =
                                   IF TELEGRAM \notin Range(current_channels)
                                   THEN Append(current_channels, TELEGRAM)
                                   ELSE current_channels],
                               got.table, TRUE)
                      ELSE Ran(tbl, stg, TRUE)
                 ELSE Ran(tbl, stg, FALSE)

\* the name select in notification_tasks.py: the module of the standard
\* library (import select); the tests replace it by a callable
select == [py |-> "module", value |-> "select"]
patched_select == [py |-> "function", value |-> "select"]

\* the recipient row read by the email task: none, one without an email
\* address, one with an address
Recipients == {None, Some([email |-> None]), Some([email |-> Some("a@b")])}

\* send_email_notification; select_: the value of the name select;
\* recipient: the row of the recipient; success: what EmailSender.send_email
\* returns.  Calling a module raises TypeError, which the task catches and
\* logs.  The task reads the settings without creating them and commits
\* only after appending.
send_email_notification(tbl, hidden, stg, notification_id, select_, recipient, success) ==
    LET notification == get_by_id(tbl, hidden, notification_id)
    IN  IF notification = None
        THEN Ran(tbl, stg, FALSE)
        ELSE IF select_.py # "function"
        THEN Ran(tbl, stg, FALSE)
        ELSE IF recipient = None
        THEN Ran(tbl, stg, FALSE)
        ELSE IF recipient[1].email = None
        THEN Ran(tbl, stg, FALSE)
        ELSE LET settings_row == stg[notification[1].recipient_id]
                 current_channels == notification[1].channels
             IN  IF settings_row # None /\ ~settings_row[1].email_enabled
                 THEN Ran(tbl, stg, FALSE)
                 ELSE IF success /\ EMAIL \notin Range(current_channels)
                 THEN Ran([tbl EXCEPT ![notification_id].channels =
                              Append(current_channels, EMAIL)], stg, TRUE)
                 ELSE Ran(tbl, stg, TRUE)

\* a worker takes the in-app task of the notification from the queue
SendNotificationTask(notification_id, t) ==
    LET task == Task("send_notification_task", notification_id)
    IN  /\ BagIn(task, queue)
        /\ queue' = queue (-) SetToBag({task})
        /\ notifications' = send_notification_task(notifications, uncommitted,
                                settings, notification_id, t).table
        /\ UNCHANGED << uncommitted, settings, enqueued, result, sessions, settings_rows, callers >>

\* a worker takes the telegram task of the notification from the queue
SendTelegramNotification(notification_id, has_chat_id, success) ==
    LET task == Task("send_telegram_notification", notification_id)
        ran == send_telegram_notification(notifications, uncommitted, settings,
                                          notification_id, has_chat_id, success)
    IN  /\ BagIn(task, queue)
        /\ queue' = queue (-) SetToBag({task})
        /\ notifications' = ran.table
        /\ settings' = ran.settings
        /\ UNCHANGED << uncommitted, enqueued, result, sessions, settings_rows, callers >>

\* a task function runs for a notification id: the queue delivers a task at
\* least once, and a task can be sent by its name for any id.  result keeps
\* the task and the id.
Executed(name, notification_id, ran) ==
    /\ notifications' = ran.table
    /\ settings' = ran.settings
    /\ result' = Result(name, ran.error, 0, << notification_id >>)
    /\ UNCHANGED << uncommitted, queue, enqueued, sessions, settings_rows, callers >>

RunSendNotificationTask(notification_id, t) ==
    Executed("send_notification_task", notification_id,
             send_notification_task(notifications, uncommitted, settings,
                                    notification_id, t))

RunSendTelegramNotification(notification_id, has_chat_id, success) ==
    Executed("send_telegram_notification", notification_id,
             send_telegram_notification(notifications, uncommitted, settings,
                                        notification_id, has_chat_id, success))

RunSendEmailNotification(notification_id, recipient, success) ==
    Executed("send_email_notification", notification_id,
             send_email_notification(notifications, uncommitted, settings,
                                     notification_id, select, recipient, success))

\* NotificationService.execute_external_sending
ExecuteExternalSending(notification_id, t) ==
    LET updated == update_status(notifications, uncommitted, notification_id, "sent", t)
    IN  /\ notifications' = updated.table
        /\ UNCHANGED << uncommitted, settings, queue, enqueued, result, sessions, settings_rows, callers >>

\* datetime.now(UTC): a reading t of the wall clock, which never shows less
\* than a timestamp already stored
Stamps ==
    UNION {Range(notifications[i].sent_at) \cup Range(notifications[i].read_at) :
              i \in Ids}
Clock(t) == \A st \in Stamps : t >= st

\* the wall clock does not show less than a stamp a session holds either
SessionClock(t) ==
    /\ \A st \in Stamps : t >= st
    /\ \A r \in Requests :
          \A i \in DOMAIN sessions[r].changed :
             \A st \in Range(sessions[r].changed[i].read_at) : t >= st

(***************************************************************************)
(* The system: requests of the API callers, the commit of a send request,  *)
(* the delivery workers and the clock.                                     *)
(***************************************************************************)
NotificationIds == 1..(MaxNotifications + 1)

(***************************************************************************)
(* Spec: the life of notifications.  Send requests with one template and   *)
(* one payload, their commit, the read-tracking requests and the        *)
(* delivery workers, interleaved.                                          *)
(***************************************************************************)
SystemChannels == {Some(<< IN_APP, TELEGRAM >>)}
SystemParticipants == {<< >>, << 2 >>, << 1, 2 >>}
SystemPayload == [f \in PayloadFields |-> "Alpha"]

\* room for k more notification rows, at most limit rows in all
Room(k, limit) == Len(notifications) + k <= limit

Next ==
    \/ \E r \in Users, c \in SystemChannels :
          /\ Room(1, MaxInFlight)
          /\ SendToUser(r, None, "system_alert", SystemPayload, Some(42), c)
    \/ \E ps \in SystemParticipants, a \in BOOLEAN, c \in SystemChannels :
          /\ Room(Cardinality(Range(ps) \cup (IF a THEN {1} ELSE {})), MaxInFlight)
          /\ SendToProject(Some(42), Some([author_id |-> 1]), ps, None,
                           "system_alert", SystemPayload, a, c)
    \/ Commit
    \/ \E u \in Users, id \in NotificationIds, t \in Times :
          Clock(t) /\ MarkRead(u, id, t)
    \/ \E u \in Users, t \in Times : Clock(t) /\ MarkAllRead(u, t)
    \/ \E id \in NotificationIds, t \in Times :
          Clock(t) /\ SendNotificationTask(id, t)
    \/ \E id \in NotificationIds, h \in BOOLEAN, ok \in BOOLEAN :
          SendTelegramNotification(id, h, ok)
    \/ \E id \in NotificationIds, t \in Times :
          Clock(t) /\ ExecuteExternalSending(id, t)

Spec == Init /\ [][Next]_vars

(***************************************************************************)
(* SpecSend: one send call with any arguments, made in any state of the    *)
(* settings table.                                                         *)
(***************************************************************************)
SettingsRows == [SettingsFields -> BOOLEAN]

\* template key and payload of the project calls: a good pair, a payload
\* without project_name, an unknown key
ProjectCalls ==
    {<< "project_announcement", SystemPayload >>,
     << "project_announcement", [f \in {"message"} |-> "Alpha"] >>,
     << "no_such_template", SystemPayload >>}

InitSend ==
    /\ notifications = << >>
    /\ uncommitted = {}
    /\ settings \in [Users -> {None} \cup {Some(row) : row \in SettingsRows}]
    /\ queue = EmptyBag
    /\ enqueued = EmptyBag
    /\ result = Result("init", "", 0, << >>)
    /\ sessions = NoSessions
    /\ settings_rows = << >>
    /\ callers = NoCallers

NextSend ==
    \/ \E r \in Users, s \in SenderIds, k \in TemplateKeys, p \in Payloads,
          pid \in ProjectIds, c \in RequestedChannels :
          /\ result.op = "init"
          /\ SendToUser(r, s, k, p, pid, c)
    \/ \E pr \in Projects, ps \in ParticipantLists, call \in ProjectCalls,
          a \in BOOLEAN, c \in RequestedChannels :
          /\ result.op = "init"
          /\ SendToProject(Some(42), pr, ps, Some(2), call[1], call[2], a, c)
    \/ Commit

SpecSend == InitSend /\ [][NextSend]_vars

(***************************************************************************)
(* SpecRead: read tracking over several notifications of several users.    *)
(***************************************************************************)
NextRead ==
    \/ \E r \in Users :
          /\ Room(1, MaxNotifications)
          /\ SendToUser(r, None, "system_alert", SystemPayload, None, None)
    \/ Commit
    \/ \E u \in Users, id \in NotificationIds, t \in Times :
          Clock(t) /\ MarkRead(u, id, t)
    \/ \E u \in Users, t \in Times : Clock(t) /\ MarkAllRead(u, t)

SpecRead == Init /\ [][NextRead]_vars

(***************************************************************************)
(* SpecConcurrent: one mark_read request and one mark_all_read request,    *)
(* their steps interleaved with each other and with the sending of         *)
(* notifications.                                                          *)
(***************************************************************************)
NextConcurrent ==
    \/ \E r \in Users :
          /\ Room(1, MaxNotifications)
          /\ SendToUser(r, None, "system_alert", SystemPayload, None, None)
    \/ Commit
    \/ \E u \in Users, id \in NotificationIds, t \in Times :
          SessionClock(t) /\ MarkReadCalled(u, id, t)
    \/ \E u \in Users, t \in Times :
          SessionClock(t) /\ MarkAllReadCalled(u, t)
    \/ \E r \in Requests : SessionCommitted(r)

SpecConcurrent == Init /\ [][NextConcurrent]_vars

(***************************************************************************)
(* SpecSettings: the callers of get_or_create, each in its transaction,    *)
(* their steps interleaved.                                                *)
(***************************************************************************)
NextSettings ==
    \/ \E c \in Callers, u \in Users : GetOrCreateCalled(c, u)
    \/ \E c \in Callers : GetOrCreateCreated(c)
    \/ \E c \in Callers : CallerCommitted(c)
    \/ \E c \in Callers : CallerRolledBack(c)

SpecSettings == Init /\ [][NextSettings]_vars

(***************************************************************************)
(* SpecSettingsUpdate: the settings requests of the users, any partial     *)
(* update, in any order.                                                   *)
(***************************************************************************)
NextSettingsUpdate ==
    \/ \E u \in Users : GetSettings(u)
    \/ \E u \in Users, update_data \in SettingsUpdates :
          UpdateSettings(u, update_data)

SpecSettingsUpdate == Init /\ [][NextSettingsUpdate]_vars

(***************************************************************************)
(* SpecChannels: the channel policy.  _normalize_channels and              *)
(* _filter_allowed_channels applied to any list of names, of the enum or   *)
(* not, and one send call with any such list, in any state of the settings *)
(* table.  result keeps the arguments with what the function returned.     *)
(***************************************************************************)
UnknownChannels == {UNKNOWN_CHANNEL, "push"}
AnyChannelLists == SeqsUpTo(NotificationChannel \cup UnknownChannels, MaxChannels)
AnyChannels == {None} \cup {Some(c) : c \in AnyChannelLists}

Applied(op, error, arguments, returned) ==
    /\ result' = Result(op, error, 0, [arguments |-> arguments, returned |-> returned])
    /\ UNCHANGED << notifications, uncommitted, settings, queue, enqueued,
                    sessions, settings_rows, callers >>

NormalizeChannels(channels) ==
    LET normalized == _normalize_channels(channels)
    IN  Applied("_normalize_channels",
                IF normalized.ok THEN ""
                ELSE "ValidationError: Unknown notification channels",
                << channels >>, normalized)

FilterAllowedChannels(channels, settings_row) ==
    Applied("_filter_allowed_channels", "", << channels, settings_row >>,
            _filter_allowed_channels(channels, settings_row))

NextChannels ==
    \/ \E c \in AnyChannels :
          result.op = "init" /\ NormalizeChannels(c)
    \/ \E c \in AnyChannelLists, row \in SettingsRows :
          result.op = "init" /\ FilterAllowedChannels(c, row)
    \/ \E r \in Users, call \in ProjectCalls, c \in AnyChannels :
          /\ result.op = "init"
          /\ SendToUser(r, None, call[1], call[2], None, c)
    \/ \E pr \in Projects, call \in ProjectCalls, c \in AnyChannels :
          /\ result.op = "init"
          /\ SendToProject(Some(42), pr, << 1, 2 >>, Some(2), call[1], call[2], FALSE, c)
    \/ Commit

SpecChannels == InitSend /\ [][NextChannels]_vars

(***************************************************************************)
(* SpecTemplates: _render_template applied to any template key and any     *)
(* payload, and one send_to_user call with them, in any state of the       *)
(* settings table.                                                         *)
(***************************************************************************)
RenderTemplate(template_key, payload) ==
    LET rendered == _render_template(template_key, payload)
    IN  Applied("_render_template", rendered.error,
                << template_key, payload >>, rendered)

NextTemplates ==
    \/ \E k \in TemplateKeys, p \in Payloads :
          result.op = "init" /\ RenderTemplate(k, p)
    \/ \E r \in Users, k \in TemplateKeys, p \in Payloads :
          /\ result.op = "init"
          /\ SendToUser(r, None, k, p, None, None)
    \/ Commit

SpecTemplates == InitSend /\ [][NextTemplates]_vars

(***************************************************************************)
(* The HTTP endpoints of the send operations                               *)
(* (api/v1/endpoints/notification.py).  Python values are tagged with      *)
(* their type: the endpoints hand the value returned by the service to     *)
(* NotificationResponse.model_validate, and what that does depends on the  *)
(* type of the value.                                                      *)
(***************************************************************************)
PyInt(n) == [py |-> "int", value |-> n]
PyNotification(row) == [py |-> "Notification", value |-> row]
PyList(items) == [py |-> "list", value |-> items]
PyTuple(items) == [py |-> "tuple", value |-> items]

\* the status of a response whose route sets no status_code
HTTP_200_OK == 200

\* NotificationResponse.model_validate(obj): the attributes of the response
\* schema are read from obj; only a Notification has them
model_validate(obj) ==
    IF obj.py = "Notification"
    THEN [ok |-> TRUE, value |-> obj.value.id]
    ELSE [ok |-> FALSE, value |-> 0]

\* the response of an endpoint: the exception that leaves the handler (if
\* any), the status, the ids of the notifications in the body
Response(error, status, body) == [error |-> error, status |-> status, body |-> body]

\* send_notification_to_user, given the outcome of the service call: the
\* name notification is bound to the tuple (Notification, status_code)
send_notification_to_user(out) ==
    LET notification == PyTuple(<< PyNotification(out.created[1]), PyInt(out.code) >>)
        validated == model_validate(notification)
    IN  IF out.error # ""
        THEN Response(out.error, 0, << >>)
        ELSE IF ~validated.ok
        THEN Response("ValidationError: NotificationResponse", 0, << >>)
        ELSE Response("", HTTP_200_OK, << validated.value >>)

\* send_notification_to_project, given the outcome of the service call: the
\* comprehension iterates the tuple (list of Notification, status_code)
send_notification_to_project(out) ==
    LET notifications_ ==
            PyTuple(<< PyList([i \in DOMAIN out.created |->
                                  PyNotification(out.created[i])]),
                       PyInt(out.code) >>)
        validated == [i \in DOMAIN notifications_.value |->
                         model_validate(notifications_.value[i])]
    IN  IF out.error # ""
        THEN Response(out.error, 0, << >>)
        ELSE IF \E i \in DOMAIN validated : ~validated[i].ok
        THEN Response("ValidationError: NotificationResponse", 0, << >>)
        ELSE Response("", HTTP_200_OK,
                      [i \in DOMAIN validated |-> validated[i].value])

\* the handler of a send endpoint ends.  The tasks of the service call are
\* with Celery whatever happens next.  A response leaves the rows flushed,
\* to be committed; when an exception leaves the handler after the service
\* returned, the unit of work keeps the rows and settings of the call
\* (kept) or discards them.
Responded(op, out, response, kept) ==
    /\ queue' = queue (+) out.dispatched
    /\ enqueued' = enqueued (+) out.dispatched
    /\ result' = Result(op, response.error, response.status, response.body)
    /\ UNCHANGED << sessions, settings_rows, callers >>
    /\ IF response.error = ""
       THEN /\ notifications' = notifications \o out.created
            /\ uncommitted' = {out.created[i].id : i \in DOMAIN out.created}
            /\ settings' = out.settings
       ELSE IF kept
       THEN /\ notifications' = notifications \o out.created
            /\ settings' = out.settings
            /\ UNCHANGED uncommitted
       ELSE UNCHANGED << notifications, uncommitted, settings >>

\* POST /users/{user_id}/notifications
PostUserNotification(user_id, current_user_id, template_key, payload, project_id, channels, kept) ==
    LET out == send_to_user(notifications, settings, user_id, Some(current_user_id),
                            template_key, payload, project_id, Some(channels))
    IN  /\ uncommitted = {}
        /\ Responded("send_notification_to_user", out,
                     send_notification_to_user(out), kept)

\* POST /projects/{project_id}/notifications
PostProjectNotification(project_id, project, participant_ids, current_user_id, template_key, payload, include_author, channels, kept) ==
    /\ uncommitted = {}
    /\ \E order \in RecipientOrders(project, participant_ids, include_author) :
          LET out == send_to_project_participants(notifications, settings,
                         Some(project_id), project, participant_ids,
                         Some(current_user_id), template_key, payload,
                         include_author, Some(channels), order)
          IN  Responded("send_notification_to_project", out,
                        send_notification_to_project(out), kept)

(***************************************************************************)
(* SpecApi: one request to a send endpoint, made in any state of the       *)
(* settings table.  The request schema admits only channel names of        *)
(* NotificationChannel.                                                    *)
(***************************************************************************)
ApiChannels == SeqsUpTo(NotificationChannel, MaxChannels)

NextApi ==
    \/ \E u \in Users, call \in ProjectCalls, pid \in ProjectIds,
          c \in ApiChannels, kept \in BOOLEAN :
          /\ result.op = "init"
          /\ PostUserNotification(u, 2, call[1], call[2], pid, c, kept)
    \/ \E pr \in Projects, ps \in ParticipantLists, call \in ProjectCalls,
          a \in BOOLEAN, c \in ApiChannels, kept \in BOOLEAN :
          /\ result.op = "init"
          /\ PostProjectNotification(42, pr, ps, 2, call[1], call[2], a, c, kept)

SpecApi == InitSend /\ [][NextApi]_vars

(***************************************************************************)
(* The HTTP endpoints of read tracking.  The body of a PATCH carries one   *)
(* flag, is_read or mark_all_read; json is the flag as it stands in the    *)
(* body.                                                                   *)
(***************************************************************************)
JsonFlags == {"true", "false", "null", "1", "'yes'", "absent"}

HTTP_400_BAD_REQUEST == 400
HTTP_422_UNPROCESSABLE_ENTITY == 422

\* NotificationReadUpdateRequest and NotificationMarkAllReadRequest: the
\* body validated into the flag; only a JSON boolean is one
validate_flag(json) ==
    IF json \in {"true", "false"}
    THEN [ok |-> TRUE, flag |-> json = "true"]
    ELSE [ok |-> FALSE, flag |-> FALSE]

\* what a read-tracking endpoint leaves: its response and the notifications
Answered(response, tbl) == [response |-> response, table |-> tbl]

\* the flag not looked at
mark_notification_read_any_flag(tbl, hidden, current_user_id, notification_id, json, t) ==
    LET marked == mark_read(tbl, hidden, current_user_id, notification_id, t)
    IN  IF marked.found = None
        THEN Answered(Response("NotFoundError: Notification not found", 0, << >>), tbl)
        ELSE Answered(Response("", HTTP_200_OK, << notification_id >>), marked.table)

\* PATCH /notifications/{notification_id}
mark_notification_read(tbl, hidden, current_user_id, notification_id, json, t) ==
    LET request_data == validate_flag(json)
        marked == mark_read(tbl, hidden, current_user_id, notification_id, t)
    IN  IF ~request_data.ok
        THEN Answered(Response("RequestValidationError",
                               HTTP_422_UNPROCESSABLE_ENTITY, << >>), tbl)
        ELSE IF ~request_data.flag
        THEN Answered(Response("HTTPException: Only is_read=true is supported",
                               HTTP_400_BAD_REQUEST, << >>), tbl)
        ELSE IF marked.found = None
        THEN Answered(Response("NotFoundError: Notification not found", 0, << >>), tbl)
        ELSE Answered(Response("", HTTP_200_OK,
                               << model_validate(PyNotification(marked.found[1])).value >>),
                      marked.table)

\* PATCH /notifications
mark_all_notifications_read(tbl, hidden, current_user_id, json, t) ==
    LET request_data == validate_flag(json)
        marked == mark_all_read(tbl, hidden, current_user_id, t)
    IN  IF ~request_data.ok
        THEN Answered(Response("RequestValidationError",
                               HTTP_422_UNPROCESSABLE_ENTITY, << >>), tbl)
        ELSE IF ~request_data.flag
        THEN Answered(Response("HTTPException: Only mark_all_read=true is supported",
                               HTTP_400_BAD_REQUEST, << >>), tbl)
        ELSE Answered(Response("", HTTP_200_OK, << marked.updated >>), marked.table)

\* a read-tracking request is answered
Patched(op, answered) ==
    /\ notifications' = answered.table
    /\ result' = Result(op, answered.response.error, answered.response.status,
                        answered.response.body)
    /\ UNCHANGED << uncommitted, settings, queue, enqueued,
                    sessions, settings_rows, callers >>

PatchNotification(current_user_id, notification_id, json, t) ==
    Patched("mark_notification_read",
            mark_notification_read(notifications, uncommitted, current_user_id,
                                   notification_id, json, t))

PatchNotifications(current_user_id, json, t) ==
    Patched("mark_all_notifications_read",
            mark_all_notifications_read(notifications, uncommitted,
                                        current_user_id, json, t))

(***************************************************************************)
(* SpecReadApi: the read-tracking endpoints called with any flag, over     *)
(* several notifications of several users.                                 *)
(***************************************************************************)
NextReadApi ==
    \/ \E r \in Users :
          /\ Room(1, MaxNotifications)
          /\ SendToUser(r, None, "system_alert", SystemPayload, None, None)
    \/ Commit
    \/ \E u \in Users, id \in NotificationIds, json \in JsonFlags, t \in Times :
          Clock(t) /\ PatchNotification(u, id, json, t)
    \/ \E u \in Users, json \in JsonFlags, t \in Times :
          Clock(t) /\ PatchNotifications(u, json, t)

SpecReadApi == Init /\ [][NextReadApi]_vars

(***************************************************************************)
(* Listing (GET /notifications).  The rows of a user come newest first;    *)
(* the id of a row is its index in the table, so a later row has a larger  *)
(* id.                                                                     *)
(***************************************************************************)
Reverse(seq) == [k \in DOMAIN seq |-> seq[Len(seq) + 1 - k]]

Min(a, b) == IF a <= b THEN a ELSE b

\* NotificationRepository.get_by_user_id: order_by(created_at.desc()),
\* offset(skip), limit(limit)
Notification_get_by_user_id(tbl, hidden, user_id, skip, limit) ==
    LET rows == SelectSeq(tbl, LAMBDA row : /\ row.id \notin hidden
                                            /\ row.recipient_id = user_id)
    IN  SubSeq(Reverse(rows), skip + 1, Min(skip + limit, Len(rows)))

\* NotificationRepository.count_by_user_id
count_by_user_id(tbl, hidden, user_id) ==
    Cardinality({i \in (DOMAIN tbl) \ hidden : tbl[i].recipient_id = user_id})

\* NotificationService.list_user_notifications
list_user_notifications(tbl, hidden, user_id, page, limit) ==
    LET skip == (page - 1) * limit
    IN  [notifications |-> Notification_get_by_user_id(tbl, hidden, user_id, skip, limit),
         total |-> count_by_user_id(tbl, hidden, user_id)]

\* the division rounded down
total_pages_floor(total, limit) == total \div limit

\* fetch_my_notifications: total_pages
total_pages(total, limit) ==
    IF total > 0 THEN (total + limit - 1) \div limit ELSE 0

\* the largest limit the route admits: Query(10, ge=1, le=100)
LimitMax == 100

\* fetch_my_notifications: the body of the response
fetch_my_notifications(tbl, hidden, current_user_id, page, limit) ==
    LET listed == list_user_notifications(tbl, hidden, current_user_id, page, limit)
    IN  [items |-> [k \in DOMAIN listed.notifications |->
                       model_validate(PyNotification(listed.notifications[k])).value],
         total |-> listed.total,
         page |-> page,
         limit |-> limit,
         total_pages |-> total_pages(listed.total, limit)]

\* GET /notifications
GetNotifications(current_user_id, page, limit) ==
    /\ result' = Result("fetch_my_notifications", "", HTTP_200_OK,
                        fetch_my_notifications(notifications, uncommitted,
                                               current_user_id, page, limit))
    /\ UNCHANGED << notifications, uncommitted, settings, queue, enqueued,
                    sessions, settings_rows, callers >>

(***************************************************************************)
(* SpecList: the notifications of the users listed page by page while      *)
(* notifications are sent.                                                 *)
(***************************************************************************)
Pages == 1..(MaxNotifications + 1)
PageLimits == (1..(MaxNotifications + 1)) \cup {LimitMax}

NextList ==
    \/ \E r \in Users :
          /\ Room(1, MaxNotifications)
          /\ SendToUser(r, None, "system_alert", SystemPayload, None, None)
    \/ Commit
    \/ \E u \in Users, page \in Pages, limit \in PageLimits :
          GetNotifications(u, page, limit)

SpecList == Init /\ [][NextList]_vars

(***************************************************************************)
(* SpecExternal: the in-app task and execute_external_sending run for any  *)
(* id while notifications are sent, committed and read.                    *)
(***************************************************************************)
\* NotificationService.execute_external_sending
execute_external_sending(tbl, hidden, stg, notification_id, t) ==
    IF get_by_id(tbl, hidden, notification_id) = None
    THEN Ran(tbl, stg, FALSE)
    ELSE Ran(update_status(tbl, hidden, notification_id, "sent", t).table, stg, FALSE)

RunExecuteExternalSending(notification_id, t) ==
    Executed("execute_external_sending", notification_id,
             execute_external_sending(notifications, uncommitted, settings,
                                      notification_id, t))

NextExternal ==
    \/ /\ Room(1, MaxNotifications)
       /\ SendToUser(1, None, "system_alert", SystemPayload, None, None)
    \/ Commit
    \/ \E id \in Ids, t \in Times : Clock(t) /\ MarkRead(1, id, t)
    \/ \E id \in NotificationIds, t \in Times :
          Clock(t) /\ RunSendNotificationTask(id, t)
    \/ \E id \in NotificationIds, t \in Times :
          Clock(t) /\ RunExecuteExternalSending(id, t)

SpecExternal == Init /\ [][NextExternal]_vars

(***************************************************************************)
(* SpecWorkers: the task functions run for any notification id, any number *)
(* of times, while notifications are sent and recipients change their      *)
(* settings.                                                               *)
(***************************************************************************)
WorkerChannels == {Some(<< IN_APP >>), Some(<< TELEGRAM >>)}
WorkerUpdates ==
    {[f \in {"telegram_enabled"} |-> FALSE], [f \in {"email_enabled"} |-> FALSE]}

NextWorkers ==
    \/ \E c \in WorkerChannels :
          /\ Room(1, MaxNotifications)
          /\ SendToUser(1, None, "system_alert", SystemPayload, None, c)
    \/ Commit
    \/ \E update_data \in WorkerUpdates :
          uncommitted = {} /\ UpdateSettings(1, update_data)
    \/ \E id \in NotificationIds, t \in Times :
          Clock(t) /\ RunSendNotificationTask(id, t)
    \/ \E id \in NotificationIds, h \in BOOLEAN, ok \in BOOLEAN :
          RunSendTelegramNotification(id, h, ok)
    \/ \E id \in NotificationIds, recipient \in Recipients, ok \in BOOLEAN :
          RunSendEmailNotification(id, recipient, ok)

SpecWorkers == Init /\ [][NextWorkers]_vars

(***************************************************************************)
(* SpecSenders: the telegram and the email task run with senders that      *)
(* succeed or report failure; result records what the task met.            *)
(***************************************************************************)
\* a task function has run; whether it called its sender, what the sender
\* reported
Attempted(name, notification_id, ran, success) ==
    /\ notifications' = ran.table
    /\ settings' = ran.settings
    /\ result' = Result(name, ran.error, 0,
                        [id |-> notification_id, attempted |-> ran.attempted,
                         success |-> success])
    /\ UNCHANGED << uncommitted, queue, enqueued, sessions, settings_rows, callers >>

NextSenders ==
    \/ \E c \in WorkerChannels :
          /\ Room(1, MaxNotifications)
          /\ SendToUser(1, None, "system_alert", SystemPayload, None, c)
    \/ Commit
    \/ \E update_data \in WorkerUpdates :
          uncommitted = {} /\ UpdateSettings(1, update_data)
    \/ \E id \in NotificationIds, h \in BOOLEAN, ok \in BOOLEAN :
          Attempted("send_telegram_notification", id,
                    send_telegram_notification(notifications, uncommitted,
                                               settings, id, h, ok), ok)
    \/ \E id \in NotificationIds, sel \in {select, patched_select}, recipient \in Recipients, ok \in BOOLEAN :
          Attempted("send_email_notification", id,
                    send_email_notification(notifications, uncommitted,
                                            settings, id, sel, recipient, ok), ok)

SpecSenders == Init /\ [][NextSenders]_vars

(***************************************************************************)
(* SpecFrame: every operation that follows the creation of a notification: *)
(* the reads, update_status, the three delivery tasks, a settings update.  *)
(***************************************************************************)
NextFrame ==
    \/ /\ Room(1, MaxInFlight)
       /\ SendToUser(1, Some(2), "system_alert", SystemPayload, Some(42), Some(<< IN_APP >>))
    \/ Commit
    \/ \E u \in Users, id \in Ids : MarkRead(u, id, 0)
    \/ \E u \in Users : MarkAllRead(u, 0)
    \/ \E id \in Ids : ExecuteExternalSending(id, 0)
    \/ \E id \in Ids : RunSendNotificationTask(id, 0)
    \/ \E id \in Ids, ok \in BOOLEAN : RunSendTelegramNotification(id, TRUE, ok)
    \/ \E id \in Ids, sel \in {select, patched_select}, ok \in BOOLEAN :
          Executed("send_email_notification", id,
                   send_email_notification(notifications, uncommitted, settings,
                                           id, sel, Some([email |-> Some("a@b")]), ok))
    \/ \E update_data \in WorkerUpdates :
          uncommitted = {} /\ UpdateSettings(1, update_data)

SpecFrame == Init /\ [][NextFrame]_vars

(***************************************************************************)
(* SpecDispatch: one send to a user whose settings are any row, for any    *)
(* requested channel list, a repeated channel included.                    *)
(***************************************************************************)
NextDispatch ==
    \/ \E r \in Users, c \in RequestedChannels :
          /\ result.op = "init"
          /\ SendToUser(r, None, "system_alert", SystemPayload, None, c)
    \/ Commit

SpecDispatch == InitSend /\ [][NextDispatch]_vars

(***************************************************************************)
(* SpecEnqueued: the tasks the dispatcher enqueued run, any number of      *)
(* times and in any order, among sends, commits and settings updates.      *)
(***************************************************************************)
EnqueuedChannels ==
    {Some(<< IN_APP >>), Some(<< TELEGRAM >>), Some(<< IN_APP, TELEGRAM >>),
     Some(<< EMAIL, TELEGRAM >>)}

NextEnqueued ==
    \/ \E c \in EnqueuedChannels :
          /\ Room(1, MaxNotifications)
          /\ SendToUser(1, None, "system_alert", SystemPayload, None, c)
    \/ \E c \in EnqueuedChannels :
          /\ Room(1, MaxNotifications)
          /\ SendToProject(Some(42), Some([author_id |-> 1]), << >>, None,
                           "system_alert", SystemPayload, TRUE, c)
    \/ Commit
    \/ \E update_data \in WorkerUpdates :
          uncommitted = {} /\ UpdateSettings(1, update_data)
    \/ \E id \in NotificationIds :
          /\ BagIn(Task("send_notification_task", id), enqueued)
          /\ Attempted("send_notification_task", id,
                       send_notification_task(notifications, uncommitted,
                                              settings, id, 0), FALSE)
    \/ \E id \in NotificationIds, h \in BOOLEAN, ok \in BOOLEAN :
          /\ BagIn(Task("send_telegram_notification", id), enqueued)
          /\ Attempted("send_telegram_notification", id,
                       send_telegram_notification(notifications, uncommitted,
                                                  settings, id, h, ok), ok)

SpecEnqueued == Init /\ [][NextEnqueued]_vars

(***************************************************************************)
(* SpecLive: sends, the commit of the sending request and the workers of   *)
(* the queue, under fairness: a request that returned commits, a task in   *)
(* the queue is taken by a worker.                                         *)
(***************************************************************************)
LiveChannels == {Some(<< IN_APP >>), Some(<< IN_APP, TELEGRAM >>), Some(<< TELEGRAM >>)}

InAppWorker(notification_id) ==
    \E t \in Times : Clock(t) /\ SendNotificationTask(notification_id, t)

TelegramWorker(notification_id) ==
    \E h \in BOOLEAN, ok \in BOOLEAN : SendTelegramNotification(notification_id, h, ok)

NextLive ==
    \/ \E r \in Users, c \in LiveChannels :
          /\ Room(1, MaxNotifications)
          /\ SendToUser(r, None, "system_alert", SystemPayload, None, c)
    \/ Commit
    \/ \E id \in NotificationIds : InAppWorker(id)
    \/ \E id \in NotificationIds : TelegramWorker(id)

Fairness ==
    /\ WF_vars(Commit)
    /\ \A id \in NotificationIds : WF_vars(InAppWorker(id))
    /\ \A id \in NotificationIds : WF_vars(TelegramWorker(id))

SpecLive == Init /\ [][NextLive]_vars /\ Fairness

(***************************************************************************)
(* SpecEquiv: one send to a user, or one send to a project whose only      *)
(* recipient is that user, from any settings.                              *)
(***************************************************************************)
\* what the project repositories answer for a project whose recipient set
\* is the single user r: the project, its participants, include_author
SingleRecipientProjects(r) ==
    {cfg \in Projects \X ParticipantLists \X BOOLEAN :
        /\ cfg[1] # None
        /\ project_recipients(cfg[2], cfg[1][1].author_id, cfg[3]) = {r}}

NextEquiv ==
    \/ \E r \in Users, k \in TemplateKeys, p \in Payloads, c \in RequestedChannels :
          /\ result.op = "init"
          /\ SendToUser(r, Some(2), k, p, Some(42), c)
    \/ \E r \in Users, k \in TemplateKeys, p \in Payloads, c \in RequestedChannels :
          \E cfg \in SingleRecipientProjects(r) :
             /\ result.op = "init"
             /\ SendToProject(Some(42), cfg[1], cfg[2], Some(2), k, p, cfg[3], c)
    \/ Commit

SpecEquiv == InitSend /\ [][NextEquiv]_vars

(***************************************************************************)
(* Vocabulary of the properties.                                           *)
(***************************************************************************)
\* the delivery task written for each channel in notification_tasks.py
DeliveryTask ==
    (IN_APP :> "send_notification_task")
    @@ (TELEGRAM :> "send_telegram_notification")
    @@ (EMAIL :> "send_email_notification")

\* the flag of channel c in a settings row
Enabled(row, c) ==
    \/ c = IN_APP /\ row.in_app_enabled
    \/ c = TELEGRAM /\ row.telegram_enabled
    \/ c = EMAIL /\ row.email_enabled

\* the settings in force for user u: the stored row, or the defaults
RowAt(stg, u) == IF stg[u] = None THEN DefaultSettings ELSE stg[u][1]

\* the requested channels, normalized: the default channel when none is named
Requested(channels) ==
    IF channels = None THEN << IN_APP >>
    ELSE IF Len(channels[1]) = 0 THEN << IN_APP >>
    ELSE channels[1]

\* the entries of seq whose channel is enabled in row, in the order of seq
RECURSIVE Keep(_, _)
Keep(seq, row) ==
    IF seq = << >> THEN << >>
    ELSE (IF Enabled(row, Head(seq)) THEN << Head(seq) >> ELSE << >>)
         \o Keep(Tail(seq), row)

\* the state in which SpecSend makes its call
CallState == result.op = "init"

SendReturned ==
    /\ result.op \in {"send_to_user", "send_to_project_participants"}
    /\ result.error = ""

(***************************************************************************)
(* C1.  After a send operation returns successfully, every notification it *)
(* created has exactly one delivery task enqueued for each channel of its  *)
(* allowed channel list, and none for any other channel.                   *)
(* The dispatcher finds no task for the email channel in CHANNEL_TASKS.    *)
(***************************************************************************)
C1_OneTaskPerAllowedChannel ==
    SendReturned =>
        \A k \in DOMAIN result.value :
            \A c \in NotificationChannel :
                CopiesIn(Task(DeliveryTask[c], result.value[k]), enqueued)
                    = IF c \in Range(notifications[result.value[k]].channels)
                      THEN 1 ELSE 0

(***************************************************************************)
(* C2.  send_to_user persists exactly one row: status pending, the         *)
(* recipient, sender, project and type of the call, and as channels the    *)
(* normalized requested channels enabled in the recipient's settings at    *)
(* the time of the call, in the requested order.                           *)
(***************************************************************************)
C2_SendToUserPersistsOneRow ==
    /\ CallState =>
          \A r \in Users, s \in SenderIds, k \in TemplateKeys, p \in Payloads,
             pid \in ProjectIds, c \in RequestedChannels :
             LET out == send_to_user(notifications, settings, r, s, k, p, pid, c)
             IN  out.error = "" =>
                    /\ Len(out.created) = 1
                    /\ out.created[1].status = "pending"
                    /\ out.created[1].recipient_id = r
                    /\ out.created[1].sender_id = s
                    /\ out.created[1].project_id = pid
                    /\ out.created[1].type = k
                    /\ out.created[1].channels = Keep(Requested(c), RowAt(settings, r))
    /\ (result.op = "send_to_user" /\ result.error = "") =>
          /\ Len(notifications) = 1
          /\ result.value = << 1 >>
          /\ notifications[1].status = "pending"

\* a call that kept one requested channel and suppressed another
C2_Witness ==
    /\ result.op = "send_to_user"
    /\ result.error = ""
    /\ result.code = PARTIAL
    /\ Len(notifications[1].channels) = 1

(***************************************************************************)
(* C3.  send_to_user returns FULL exactly when the allowed channels equal  *)
(* the normalized requested channels, and PARTIAL exactly when a requested *)
(* channel was suppressed by the recipient's settings.                     *)
(***************************************************************************)
C3_DeliveryCode ==
    CallState =>
        \A r \in Users, s \in SenderIds, k \in TemplateKeys, p \in Payloads,
           pid \in ProjectIds, c \in RequestedChannels :
           LET out == send_to_user(notifications, settings, r, s, k, p, pid, c)
               suppressed == \E i \in DOMAIN Requested(c) :
                                 ~Enabled(RowAt(settings, r), Requested(c)[i])
           IN  out.error = "" =>
                  /\ out.code \in {FULL, PARTIAL}
                  /\ out.code = FULL <=> out.created[1].channels = Requested(c)
                  /\ out.code = PARTIAL <=> suppressed

\* a call that returned FULL for two requested channels
C3_Witness ==
    /\ result.op = "send_to_user"
    /\ result.error = ""
    /\ result.code = FULL
    /\ Len(notifications[1].channels) = 2

(***************************************************************************)
(* C10.  send_to_project_participants creates exactly one notification per *)
(* distinct user among the participants and, when include_author is set,   *)
(* the author.                                                             *)
(***************************************************************************)
C10_OneNotificationPerRecipient ==
    /\ CallState =>
           \A pr \in Projects \ {None}, ps \in ParticipantLists,
              call \in ProjectCalls, a \in BOOLEAN, c \in RequestedChannels :
              \A order \in RecipientOrders(pr, ps, a) :
                 LET out == send_to_project_participants(notifications, settings,
                                Some(42), pr, ps, Some(2), call[1], call[2], a, c,
                                order)
                     expected == {u \in Users :
                                     \/ \E i \in DOMAIN ps : ps[i] = u
                                     \/ a /\ u = pr[1].author_id}
                 IN  out.error = "" =>
                        \A u \in Users :
                           Cardinality({i \in DOMAIN out.created :
                                           out.created[i].recipient_id = u})
                              = IF u \in expected THEN 1 ELSE 0
    /\ (result.op = "send_to_project_participants" /\ result.error = "") =>
          /\ result.value = [i \in 1..Len(notifications) |-> i]
          /\ \A i, j \in Ids :
                notifications[i].recipient_id = notifications[j].recipient_id
                   => i = j

\* a fan-out that created a notification for each of two users
C10_Witness ==
    /\ result.op = "send_to_project_participants"
    /\ result.error = ""
    /\ Len(notifications) = 2
    /\ notifications[1].recipient_id # notifications[2].recipient_id

(***************************************************************************)
(* C4.  A notification row is committed before any delivery task naming    *)
(* its id is enqueued, so no worker looks up a successfully created        *)
(* notification and finds it missing.  The in-app worker that finds the    *)
(* row stamps sent_at; a committed row whose in-app task has been taken    *)
(* from the queue and whose sent_at is still null was looked up before its *)
(* commit and found missing.                                               *)
(***************************************************************************)
C4_WorkerFindsCommittedRow ==
    \A id \in Visible :
        LET task == Task("send_notification_task", id)
        IN  (BagIn(task, enqueued) /\ ~BagIn(task, queue))
                => notifications[id].sent_at # None

(***************************************************************************)
(* C5.  Status moves forward only, pending -> sent -> read: a notification *)
(* that is read is never sent or pending again, one that is sent is never  *)
(* pending again.                                                          *)
(***************************************************************************)
C5_StatusMonotonic ==
    [][\A id \in Ids :
          /\ notifications[id].status = "read" => notifications'[id].status = "read"
          /\ notifications[id].status = "sent"
                => notifications'[id].status # "pending"]_vars

(***************************************************************************)
(* C6.  read_at is set at most once: no step changes a read_at that is     *)
(* set, and mark_read by the recipient on a notification already read      *)
(* succeeds and returns the read_at stored before.                         *)
(***************************************************************************)
C6_ReadAtSetOnce ==
    [][/\ \A id \in Ids :
             notifications[id].read_at # None
                => notifications'[id].read_at = notifications[id].read_at
       /\ \A u \in Users, id \in Visible, t \in Times :
             (/\ notifications[id].read_at # None
              /\ notifications[id].recipient_id = u
              /\ result'.op = "mark_read"
              /\ MarkRead(u, id, t))
                => /\ result'.error = ""
                   /\ result'.value[1].read_at = notifications[id].read_at
                   /\ result'.value[1].id = id]_vars

\* read at time 0, set to sent by a worker at time 1, then marked read
\* again: the second mark_read returned the read_at of the first
C6_Witness ==
    /\ result.op = "mark_read"
    /\ result.error = ""
    /\ result.value[1].read_at = Some(0)
    /\ result.value[1].sent_at = Some(1)
    /\ notifications[result.value[1].id] = result.value[1]

(***************************************************************************)
(* C7.  sent_at is set at most once, on the first transition into sent: a  *)
(* sent_at that is set never changes, a null sent_at is stamped only by a  *)
(* step that gives the notification status sent, every step that gives     *)
(* status sent leaves sent_at set, and a new row has sent_at null.         *)
(***************************************************************************)
C7_SentAtSetOnce ==
    [][/\ \A id \in Ids :
             /\ notifications[id].sent_at # None
                   => notifications'[id].sent_at = notifications[id].sent_at
             /\ (notifications[id].sent_at = None /\ notifications'[id].sent_at # None)
                   => (notifications'[id].status = "sent"
                       /\ notifications[id].status # "sent")
             /\ notifications'[id].status = "sent"
                   => notifications'[id].sent_at # None
       /\ \A id \in (DOMAIN notifications') \ Ids :
             notifications'[id].sent_at = None]_vars

\* sent at time 0, read at time 1, then set to sent once more: sent_at is
\* still the time of the first transition
C7_Witness ==
    \E id \in Ids :
        /\ notifications[id].status = "sent"
        /\ notifications[id].sent_at = Some(0)
        /\ notifications[id].read_at = Some(1)

(***************************************************************************)
(* C8.  mark_read fails with NotFound when the notification does not exist *)
(* (for the caller's session) or belongs to another user; both failures    *)
(* give the caller the same error and change no notification.              *)
(***************************************************************************)
NotFound == Result("mark_read", "NotFoundError", 0, << >>)

C8_MarkReadNotFound ==
    [][\A u \in Users, id \in NotificationIds, t \in Times :
          (result'.op = "mark_read" /\ MarkRead(u, id, t)) =>
             IF id \notin Visible
             THEN result' = NotFound /\ notifications' = notifications
             ELSE IF notifications[id].recipient_id # u
             THEN result' = NotFound /\ notifications' = notifications
             ELSE result'.error = ""]_vars

\* NotFound was returned while every notification there is belongs to one
\* user and is unread: the caller was refused, nothing changed
C8_Witness ==
    /\ result = NotFound
    /\ Visible = Ids
    /\ Len(notifications) = MaxNotifications
    /\ \A id \in Ids : notifications[id].read_at = None

(***************************************************************************)
(* C9.  mark_all_read returns the number of the user's notifications that  *)
(* were unread, leaves every one of them read, changes no notification of  *)
(* another user, and an immediately repeated call returns 0 and changes    *)
(* nothing.  The notifications of a user are the committed rows addressed  *)
(* to the user.                                                            *)
(***************************************************************************)
C9_MarkAllRead ==
    [][\A u \in Users, t \in Times :
          (result'.op = "mark_all_read" /\ MarkAllRead(u, t)) =>
             LET owned == {i \in Visible : notifications[i].recipient_id = u}
                 unread == {i \in owned : notifications[i].read_at = None}
             IN  /\ result'.value = << Cardinality(unread) >>
                 /\ \A i \in owned : notifications'[i].read_at # None
                 /\ \A i \in Ids \ owned : notifications'[i] = notifications[i]
                 /\ \A t2 \in Times :
                       LET again == mark_all_read(notifications', uncommitted', u, t2)
                       IN  again.updated = 0 /\ again.table = notifications']_vars

\* mark_all_read marked one notification while an unread notification of
\* another user stayed unread
C9_Witness ==
    /\ result.op = "mark_all_read"
    /\ result.value = << 1 >>
    /\ \E i, j \in Visible :
          /\ notifications[i].read_at # None
          /\ notifications[j].read_at = None
          /\ notifications[i].recipient_id # notifications[j].recipient_id

(***************************************************************************)
(* Vocabulary of the project fan-out properties.                           *)
(***************************************************************************)
\* the requests whose channel names are all known
KnownChannels ==
    {c \in RequestedChannels : c = None \/ Range(c[1]) \subseteq NotificationChannel}

\* the distinct users addressed by a fan-out
Addressed(project, participant_ids, include_author) ==
    {u \in Users :
        \/ \E i \in DOMAIN participant_ids : participant_ids[i] = u
        \/ include_author /\ u = project[1].author_id}

\* a requested channel is disabled in the settings in force for user u
Suppressed(stg, u, channels) ==
    \E i \in DOMAIN Requested(channels) :
        ~Enabled(RowAt(stg, u), Requested(channels)[i])

\* the template key is unknown or a required field is not in the payload
TemplateFails(template_key, payload) ==
    \/ template_key \notin {"system_alert", "project_announcement"}
    \/ "message" \notin DOMAIN payload
    \/ template_key = "project_announcement" /\ "project_name" \notin DOMAIN payload

ProjectReturned(error) ==
    /\ result.op = "send_to_project_participants"
    /\ result.error = error

(***************************************************************************)
(* C11.  send_to_project_participants on an existing project with no       *)
(* participant and include_author false (channel names accepted by the     *)
(* normalization that comes first) returns the empty list with code FULL,  *)
(* raises nothing, persists no notification, creates no settings row and   *)
(* enqueues no task, whatever the template key and the payload.            *)
(***************************************************************************)
C11_EmptyRecipientSet ==
    /\ CallState =>
          \A pr \in Projects \ {None}, call \in ProjectCalls, c \in KnownChannels :
             \A order \in RecipientOrders(pr, << >>, FALSE) :
                send_to_project_participants(notifications, settings, Some(42),
                    pr, << >>, Some(2), call[1], call[2], FALSE, c, order)
                   = [error |-> "", code |-> FULL, created |-> << >>,
                      settings |-> settings, dispatched |-> EmptyBag]
    /\ (ProjectReturned("") /\ result.value = << >>) =>
          /\ result.code = FULL
          /\ notifications = << >>
          /\ BagToSet(enqueued) = {}

\* a fan-out returned the empty list with FULL and left nothing behind
C11_Witness ==
    /\ result = Result("send_to_project_participants", "", FULL, << >>)
    /\ notifications = << >>
    /\ BagToSet(queue) = {}

(***************************************************************************)
(* C12.  send_to_project_participants with a project id that does not      *)
(* resolve (channel names accepted by the normalization that comes first)  *)
(* fails with NotFound "Project not found", whatever the participant       *)
(* lookup would answer, and persists and enqueues nothing.                 *)
(***************************************************************************)
C12_ProjectNotFound ==
    /\ CallState =>
          \A ps \in ParticipantLists, call \in ProjectCalls, a \in BOOLEAN,
             c \in KnownChannels :
             \A order \in RecipientOrders(None, ps, a) :
                send_to_project_participants(notifications, settings, Some(42),
                    None, ps, Some(2), call[1], call[2], a, c, order)
                   = [error |-> "NotFoundError: Project not found", code |-> 0,
                      created |-> << >>, settings |-> settings,
                      dispatched |-> EmptyBag]
    /\ ProjectReturned("NotFoundError: Project not found") =>
          /\ notifications = << >>
          /\ BagToSet(enqueued) = {}

\* a fan-out failed with NotFound for its project
C12_Witness ==
    /\ ProjectReturned("NotFoundError: Project not found")
    /\ result.value = << >>
    /\ uncommitted = {}

(***************************************************************************)
(* C13.  In a fan-out with at least one recipient, an unknown template key *)
(* or a missing required payload field aborts the call with a validation   *)
(* error before anything is persisted: no notification row, no settings    *)
(* row for any recipient, no task.                                         *)
(***************************************************************************)
C13_TemplateFailureAborts ==
    /\ CallState =>
          \A pr \in Projects \ {None}, ps \in ParticipantLists,
             call \in ProjectCalls, a \in BOOLEAN, c \in KnownChannels :
             \A order \in RecipientOrders(pr, ps, a) :
                LET out == send_to_project_participants(notifications, settings,
                               Some(42), pr, ps, Some(2), call[1], call[2], a, c,
                               order)
                IN  (Addressed(pr, ps, a) # {} /\ TemplateFails(call[1], call[2]))
                       => /\ out.error \in {"ValidationError: Unknown template key",
                                            "ValidationError: Missing payload fields"}
                          /\ out.created = << >>
                          /\ out.settings = settings
                          /\ BagToSet(out.dispatched) = {}
    /\ (\/ ProjectReturned("ValidationError: Unknown template key")
        \/ ProjectReturned("ValidationError: Missing payload fields")) =>
          /\ notifications = << >>
          /\ BagToSet(enqueued) = {}

\* a fan-out failed on a missing payload field while a user still has no
\* settings row
C13_Witness ==
    /\ ProjectReturned("ValidationError: Missing payload fields")
    /\ notifications = << >>
    /\ \E u \in Users : settings[u] = None

(***************************************************************************)
(* C14.  send_to_project_participants returns PARTIAL exactly when at      *)
(* least one recipient has a requested channel suppressed by the settings, *)
(* and FULL exactly when the allowed channels of every recipient equal the *)
(* normalized requested channels.                                          *)
(***************************************************************************)
C14_AggregateDeliveryCode ==
    CallState =>
        \A pr \in Projects \ {None}, ps \in ParticipantLists,
           call \in ProjectCalls, a \in BOOLEAN, c \in RequestedChannels :
           \A order \in RecipientOrders(pr, ps, a) :
              LET out == send_to_project_participants(notifications, settings,
                             Some(42), pr, ps, Some(2), call[1], call[2], a, c,
                             order)
                  recipients == Addressed(pr, ps, a)
              IN  out.error = "" =>
                     /\ out.code \in {FULL, PARTIAL}
                     /\ out.code = PARTIAL
                           <=> \E u \in recipients : Suppressed(settings, u, c)
                     /\ out.code = FULL
                           <=> \A u \in recipients :
                                  Keep(Requested(c), RowAt(settings, u)) = Requested(c)

\* PARTIAL returned although one of the two recipients got every channel
C14_Witness ==
    /\ ProjectReturned("")
    /\ result.code = PARTIAL
    /\ Len(notifications) = 2
    /\ \E i, j \in Ids :
          Len(notifications[i].channels) = 2 /\ Len(notifications[j].channels) < 2

(***************************************************************************)
(* C15.  Every row of a fan-out carries the allowed channels of its own    *)
(* recipient (the normalized request filtered by that recipient's          *)
(* settings), all rows have status pending and the same title and body,    *)
(* and all rows are persisted together by one batch create.                *)
(***************************************************************************)
C15_PerRecipientChannels ==
    /\ CallState =>
          \A pr \in Projects \ {None}, ps \in ParticipantLists,
             call \in ProjectCalls, a \in BOOLEAN, c \in RequestedChannels :
             \A order \in RecipientOrders(pr, ps, a) :
                LET out == send_to_project_participants(notifications, settings,
                               Some(42), pr, ps, Some(2), call[1], call[2], a, c,
                               order)
                IN  out.error = "" =>
                       \A i \in DOMAIN out.created :
                          /\ out.created[i].channels
                                = Keep(Requested(c),
                                       RowAt(settings, out.created[i].recipient_id))
                          /\ out.created[i].status = "pending"
                          /\ out.created[i].title = out.created[1].title
                          /\ out.created[i].body = out.created[1].body
                          /\ out.created[i].title
                                = Format(list_notification_templates[call[1]].title,
                                         call[2])
    /\ (ProjectReturned("") /\ uncommitted # {}) =>
          /\ uncommitted = Ids
          /\ Len(result.value) = Len(notifications)

\* two rows of one fan-out, flushed together, with different channels
C15_Witness ==
    /\ ProjectReturned("")
    /\ uncommitted = {1, 2}
    /\ notifications[1].channels # notifications[2].channels
    /\ notifications[1].channels # << >>
    /\ notifications[2].channels # << >>
    /\ notifications[1].title = notifications[2].title

(***************************************************************************)
(* C16.  When every requested channel is disabled in the recipient's       *)
(* settings, send_to_user still persists the notification, with an empty   *)
(* channels list, returns PARTIAL and enqueues no delivery task.           *)
(***************************************************************************)
C16_AllChannelsDisabled ==
    /\ CallState =>
          \A r \in Users, s \in SenderIds, k \in TemplateKeys, p \in Payloads,
             pid \in ProjectIds, c \in RequestedChannels :
             LET out == send_to_user(notifications, settings, r, s, k, p, pid, c)
             IN  (/\ out.error = ""
                  /\ \A i \in DOMAIN Requested(c) :
                        ~Enabled(RowAt(settings, r), Requested(c)[i]))
                    => /\ Len(out.created) = 1
                       /\ out.created[1].channels = << >>
                       /\ out.code = PARTIAL
                       /\ BagToSet(out.dispatched) = {}
    /\ (/\ result.op = "send_to_user"
        /\ result.error = ""
        /\ notifications[1].channels = << >>) =>
          /\ result.code = PARTIAL
          /\ BagToSet(enqueued) = {}

\* a notification persisted with no channel, PARTIAL returned, nothing queued
C16_Witness ==
    /\ result = Result("send_to_user", "", PARTIAL, << 1 >>)
    /\ notifications[1].channels = << >>
    /\ notifications[1].status = "pending"
    /\ BagToSet(queue) = {}

(***************************************************************************)
(* C17.  The send-to-user and send-to-project endpoints answer 200 when    *)
(* every requested channel was permitted and 202 when one was suppressed   *)
(* by preference, with the created notifications in the body in both       *)
(* cases, and no error for a preference-driven reduction.                  *)
(* The endpoints bind the (value, status_code) tuple of the service to one *)
(* name and never read the status code.                                    *)
(***************************************************************************)
C17_ApiDeliveryStatus ==
    CallState =>
        /\ \A u \in Users, pid \in ProjectIds, c \in ApiChannels :
              LET out == send_to_user(notifications, settings, u, Some(2),
                             "system_alert", SystemPayload, pid, Some(c))
                  response == send_notification_to_user(out)
              IN  /\ out.error = ""
                  /\ response.error = ""
                  /\ response.status
                        = (IF Suppressed(settings, u, Some(c)) THEN PARTIAL ELSE FULL)
                  /\ response.body = << out.created[1].id >>
        /\ \A pr \in Projects \ {None}, ps \in ParticipantLists, a \in BOOLEAN,
              c \in ApiChannels :
              \A order \in RecipientOrders(pr, ps, a) :
                 LET out == send_to_project_participants(notifications, settings,
                                Some(42), pr, ps, Some(2), "system_alert",
                                SystemPayload, a, Some(c), order)
                     response == send_notification_to_project(out)
                 IN  /\ out.error = ""
                     /\ response.error = ""
                     /\ response.status
                           = (IF \E r \in Addressed(pr, ps, a) :
                                    Suppressed(settings, r, Some(c))
                              THEN PARTIAL ELSE FULL)
                     /\ response.body
                           = [i \in DOMAIN out.created |-> out.created[i].id]

(***************************************************************************)
(* Vocabulary of the worker properties.                                    *)
(***************************************************************************)
\* seq is an initial part of longer
IsPrefix(seq, longer) ==
    /\ Len(seq) <= Len(longer)
    /\ \A i \in DOMAIN seq : longer[i] = seq[i]

\* how often x occurs in seq
Occurrences(seq, x) == Cardinality({i \in DOMAIN seq : seq[i] = x})

\* the values the name select has: in the program, and under the tests
SelectValues == {select, patched_select}

\* the worker finds no row for the id, or the recipient of the row has
\* channel c disabled in the settings in force
MissingOrDisabled(notification_id, c) ==
    \/ notification_id \notin Visible
    \/ ~Enabled(RowAt(settings, notifications[notification_id].recipient_id), c)

\* the task left the notifications as they are, called no sender, raised
\* nothing
NoOp(ran) ==
    /\ ran.table = notifications
    /\ ~ran.attempted
    /\ ran.error = ""

(***************************************************************************)
(* C18.  The delivery workers only append to the channels of a             *)
(* notification: in every state, whichever of the in-app, telegram and     *)
(* email tasks runs next, for whichever id, whether its send succeeds or   *)
(* fails, the channels every notification has are still there afterwards,  *)
(* in the same order, at the front of its channels.  The email task is     *)
(* checked as the program runs it and with the name select callable.       *)
(***************************************************************************)
C18_WorkersOnlyAppend ==
    \A id \in NotificationIds, ok \in BOOLEAN :
       LET Kept(ran) ==
               /\ DOMAIN ran.table = DOMAIN notifications
               /\ \A i \in Ids :
                     IsPrefix(notifications[i].channels, ran.table[i].channels)
       IN  /\ \A t \in Times :
                 Clock(t) => Kept(send_notification_task(notifications,
                                      uncommitted, settings, id, t))
           /\ \A h \in BOOLEAN :
                 Kept(send_telegram_notification(notifications, uncommitted,
                                                 settings, id, h, ok))
           /\ \A sel \in SelectValues, recipient \in Recipients :
                 Kept(send_email_notification(notifications, uncommitted,
                                              settings, id, sel, recipient, ok))

\* the telegram task appended its channel to a notification sent in-app
C18_Witness ==
    /\ result.op = "send_telegram_notification"
    /\ result.value[1] \in Ids
    /\ notifications[result.value[1]].channels = << IN_APP, TELEGRAM >>

(***************************************************************************)
(* C19.  The telegram and the email task do nothing, silently, when the    *)
(* notification does not exist, when the recipient has no contact address  *)
(* for the channel, or when the recipient's current settings disable the   *)
(* channel: no sender is called, the notifications are unchanged, no       *)
(* exception leaves the task.                                              *)
(***************************************************************************)
C19_WorkersNoOp ==
    \A id \in NotificationIds, ok \in BOOLEAN :
       /\ \A h \in BOOLEAN :
             (~h \/ MissingOrDisabled(id, TELEGRAM))
                => NoOp(send_telegram_notification(notifications, uncommitted,
                                                   settings, id, h, ok))
       /\ \A sel \in SelectValues, recipient \in Recipients :
             (\/ recipient = None
              \/ recipient # None /\ recipient[1].email = None
              \/ MissingOrDisabled(id, EMAIL))
                => NoOp(send_email_notification(notifications, uncommitted,
                                                settings, id, sel, recipient, ok))

\* the telegram task ran for a pending notification that carries telegram
\* while the recipient's settings disable telegram
C19_Witness ==
    /\ result.op = "send_telegram_notification"
    /\ result.error = ""
    /\ result.value[1] \in Visible
    /\ TELEGRAM \in Range(notifications[result.value[1]].channels)
    /\ notifications[result.value[1]].status = "pending"
    /\ settings[notifications[result.value[1]].recipient_id] # None
    /\ ~settings[notifications[result.value[1]].recipient_id][1].telegram_enabled

C21_FirstDeliveryMarksSent ==
    \A id \in Visible :
       notifications[id].status = "pending" =>
          LET Sent(ran) ==
                  /\ ran.table[id].status = "sent"
                  /\ ran.table[id].sent_at # None
          IN  /\ \A t \in Times :
                    Clock(t) => Sent(send_notification_task(notifications,
                                         uncommitted, settings, id, t))
              /\ \A h \in BOOLEAN :
                    LET ran == send_telegram_notification(notifications,
                                   uncommitted, settings, id, h, TRUE)
                    IN  ran.attempted => Sent(ran)
              /\ \A sel \in SelectValues, recipient \in Recipients :
                    LET ran == send_email_notification(notifications,
                                   uncommitted, settings, id, sel, recipient, TRUE)
                    IN  ran.attempted => Sent(ran)

RowsOfUser(user_id) == {i \in DOMAIN settings_rows : settings_rows[i].user_id = user_id}

(***************************************************************************)
(* C23.  At most one settings row per user: in every state reached by      *)
(* get_or_create calls of any callers, in sequence or interleaved, the     *)
(* table holds at most one row for each user; a caller that get_or_create  *)
(* returned to sees exactly one row for the user, so the row was created   *)
(* on first access and no second row after it.                             *)
(***************************************************************************)
C23_OneSettingsRowPerUser ==
    /\ \A u \in Users : Cardinality(RowsOfUser(u)) <= 1
    /\ \A c \in Callers :
          \A u \in callers[c].got : Len(get_by_user_id(settings_rows, c, u)) = 1

\* two callers found no row for user 1 and went on to create it; the first
\* inserted and committed, the second is about to insert
C23_Witness ==
    /\ callers["get_settings"].pc = "creating"
    /\ callers["get_settings"].user_id = Some(1)
    /\ callers["send_to_user"].pc = "idle"
    /\ settings_rows = << [user_id |-> 1, xid |-> None] >>

(***************************************************************************)
(* C24.  A settings update is a partial update: in every state, for every  *)
(* user and every set of fields in the request, update_settings leaves the *)
(* user a row in which the fields of the request have the given values and *)
(* every other field has the value it had (the default when the row did    *)
(* not exist and was created); the row returned is that row, and no row of *)
(* any user is deleted or changed otherwise.                               *)
(***************************************************************************)
C24_PartialSettingsUpdate ==
    \A u \in Users, update_data \in SettingsUpdates :
       LET updated == update_by_user_id(settings, u, update_data)
       IN  /\ updated.table[u] = Some(updated.row)
           /\ \A f \in SettingsFields :
                 updated.row[f] = IF f \in DOMAIN update_data
                                  THEN update_data[f]
                                  ELSE RowAt(settings, u)[f]
           /\ \A v \in Users \ {u} : updated.table[v] = settings[v]

\* update_settings has just returned the row of user 1, telegram and email
\* off and in-app on, and user 2 still has no row
C24_Witness ==
    /\ result.op = "update_settings"
    /\ result.value = << [in_app_enabled |-> TRUE, telegram_enabled |-> FALSE,
                          email_enabled |-> FALSE] >>
    /\ settings[1] = Some(result.value[1])
    /\ settings[2] = None

(***************************************************************************)
(* C25.  Normalizing an empty channel list and normalizing an absent       *)
(* (None) channel list both succeed and both give exactly the list of the  *)
(* single default channel in-app.                                          *)
(***************************************************************************)
C25_NormalizeEmptyOrAbsent ==
    /\ _normalize_channels(None).ok
    /\ _normalize_channels(Some(<< >>)).ok
    /\ _normalize_channels(None).value = << IN_APP >>
    /\ _normalize_channels(Some(<< >>)).value = << IN_APP >>
    /\ (/\ result.op = "_normalize_channels"
        /\ result.value.arguments[1] \in {None, Some(<< >>)})
          => /\ result.error = ""
             /\ result.value.returned.value = << IN_APP >>

\* _normalize_channels was applied to the empty list and gave in-app
C25_Witness ==
    /\ result.op = "_normalize_channels"
    /\ result.value.arguments = << Some(<< >>) >>
    /\ result.value.returned.value = << IN_APP >>

(***************************************************************************)
(* Vocabulary of the channel policy properties.                            *)
(***************************************************************************)
\* the entries of a list that are outside the fixed channel set
Outside(c) == Range(c) \ {EMAIL, TELEGRAM, IN_APP}

UnknownChannel == "ValidationError: Unknown notification channels"

(***************************************************************************)
(* C26.  Normalization fails whenever the requested list has an entry      *)
(* outside {email, telegram, in-app}, and the error lists every such       *)
(* entry.  In send_to_user and in send_to_project_participants the failure *)
(* is the outcome of the call whatever the other arguments are (template,  *)
(* payload, project), and it leaves no settings row, no notification row   *)
(* and no delivery task.                                                   *)
(***************************************************************************)
C26_UnknownChannelFails ==
    /\ CallState =>
          \A c \in AnyChannelLists :
             Outside(c) # {} =>
                /\ ~_normalize_channels(Some(c)).ok
                /\ _normalize_channels(Some(c)).unknown = Outside(c)
    /\ (/\ result.op = "_normalize_channels"
        /\ result.value.arguments[1] # None
        /\ Outside(result.value.arguments[1][1]) # {})
          => /\ result.error = UnknownChannel
             /\ result.value.returned.unknown = Outside(result.value.arguments[1][1])
    /\ CallState =>
          \A c \in AnyChannelLists, call \in ProjectCalls :
             Outside(c) # {} =>
                /\ \A r \in Users :
                      send_to_user(notifications, settings, r, None,
                                   call[1], call[2], None, Some(c))
                         = [error |-> UnknownChannel, code |-> 0,
                            created |-> << >>, settings |-> settings,
                            dispatched |-> EmptyBag]
                /\ \A pr \in Projects :
                      \A order \in RecipientOrders(pr, << 1, 2 >>, FALSE) :
                         send_to_project_participants(notifications, settings,
                             Some(42), pr, << 1, 2 >>, Some(2), call[1], call[2],
                             FALSE, Some(c), order)
                            = [error |-> UnknownChannel, code |-> 0,
                               created |-> << >>, settings |-> settings,
                               dispatched |-> EmptyBag]
    /\ (/\ result.op \in {"send_to_user", "send_to_project_participants"}
        /\ result.error = UnknownChannel)
          => /\ notifications = << >>
             /\ BagToSet(enqueued) = {}

\* a send_to_user call failed on its channels, in a settings table without
\* rows: there is still no settings row, no notification and no task
C26_Witness ==
    /\ result.op = "send_to_user"
    /\ result.error = UnknownChannel
    /\ \A u \in Users : settings[u] = None
    /\ notifications = << >>
    /\ BagToSet(enqueued) = {}

\* no entry of the list occurs in it twice
NoDuplicate(c) == \A i, j \in DOMAIN c : c[i] = c[j] => i = j

(***************************************************************************)
(* C27.  Normalization returns an ordered set: for every list of names of  *)
(* the fixed channel set, one that names a channel more than once          *)
(* included, the result names each channel at most once; and the channels  *)
(* stored on a notification never name a channel twice.                    *)
(* _normalize_channels returns the list as it was given.                   *)
(***************************************************************************)
C27_NormalizedChannelsDistinct ==
    /\ CallState =>
          \A c \in AnyChannelLists :
             Outside(c) = {} =>
                /\ _normalize_channels(Some(c)).ok
                /\ NoDuplicate(_normalize_channels(Some(c)).value)
    /\ \A id \in Ids : NoDuplicate(notifications[id].channels)

\* sub holds entries of seq, each from a position of its own, in the order
\* of seq
IsSubSeq(sub, seq) ==
    \E kept \in SUBSET DOMAIN seq :
       LET positions == SelectSeq([i \in DOMAIN seq |-> i], LAMBDA i : i \in kept)
       IN  sub = [k \in DOMAIN positions |-> seq[positions[k]]]

(***************************************************************************)
(* C28.  filter_allowed, for every list of names and every settings row:   *)
(* it returns no channel whose flag is false in the settings; it returns   *)
(* only entries of its input, in the order of the input; it leaves out,    *)
(* without an error, every name outside the fixed channel set; and when    *)
(* all three flags are enabled it returns its input, unchanged but for     *)
(* the names outside the set that it leaves out.                           *)
(***************************************************************************)
C28_FilterAllowed ==
    /\ CallState =>
          \A c \in AnyChannelLists, row \in SettingsRows :
             LET allowed == _filter_allowed_channels(c, row)
             IN  /\ \A i \in DOMAIN allowed : Enabled(row, allowed[i])
                 /\ IsSubSeq(allowed, c)
                 /\ Outside(allowed) = {}
                 /\ (\A f \in SettingsFields : row[f]) =>
                       /\ allowed = SelectSeq(c, LAMBDA ch : ch \notin Outside(c))
                       /\ Outside(c) = {} => allowed = c
    /\ result.op = "_filter_allowed_channels" =>
          /\ result.error = ""
          /\ result.value.returned
                = _filter_allowed_channels(result.value.arguments[1],
                                           result.value.arguments[2])

\* filter_allowed was applied to email and a name outside the set with all
\* flags enabled, and returned email alone
C28_Witness ==
    /\ result.op = "_filter_allowed_channels"
    /\ result.error = ""
    /\ result.value.arguments = << << EMAIL, UNKNOWN_CHANNEL >>, DefaultSettings >>
    /\ result.value.returned = << EMAIL >>

(***************************************************************************)
(* C29.  Rendering fails with a validation error for every template key    *)
(* that is not in the registry; and for every key of the registry and      *)
(* every payload that lacks one or more of its required fields, it fails   *)
(* with a validation error that lists the missing required fields: every   *)
(* one of them, each once, in the order of the required fields.            *)
(***************************************************************************)
C29_RenderFailures ==
    /\ CallState =>
          \A k \in TemplateKeys, p \in Payloads :
             LET rendered == _render_template(k, p)
                 required == list_notification_templates[k].required
                 absent == {f \in Range(required) : f \notin DOMAIN p}
             IN  /\ k \notin DOMAIN list_notification_templates =>
                       /\ ~rendered.ok
                       /\ rendered.error = "ValidationError: Unknown template key"
                 /\ (k \in DOMAIN list_notification_templates /\ absent # {}) =>
                       /\ ~rendered.ok
                       /\ rendered.error = "ValidationError: Missing payload fields"
                       /\ Range(rendered.detail[3]) = absent
                       /\ NoDuplicate(rendered.detail[3])
                       /\ IsSubSeq(rendered.detail[3], required)
    /\ result.op = "_render_template" =>
          /\ result.value.returned
                = _render_template(result.value.arguments[1], result.value.arguments[2])
          /\ result.error = result.value.returned.error

\* _render_template was applied to project_announcement with an empty
\* payload and failed, listing project_name and message
C29_Witness ==
    /\ result.op = "_render_template"
    /\ result.value.arguments[1] = "project_announcement"
    /\ DOMAIN result.value.arguments[2] = {}
    /\ result.error = "ValidationError: Missing payload fields"
    /\ result.value.returned.detail[3] = << "project_name", "message" >>

(***************************************************************************)
(* C30.  The mark-one-read and the mark-all-read endpoint act only on an   *)
(* explicit true flag: in every state, for every user, notification id and *)
(* flag in the body, a flag other than true is answered with a client      *)
(* error (a 4xx status) and leaves every notification as it is, status and *)
(* read_at included; the flag true marks what mark_read and mark_all_read  *)
(* mark.                                                                   *)
(***************************************************************************)
C30_OnlyExplicitTrue ==
    \A u \in Users, json \in JsonFlags, t \in Times :
       Clock(t) =>
          LET all == mark_all_notifications_read(notifications, uncommitted, u, json, t)
              ClientError(answered) ==
                  /\ answered.response.error # ""
                  /\ answered.response.status \in 400..499
                  /\ answered.table = notifications
          IN  /\ json # "true" => ClientError(all)
              /\ json = "true" =>
                    all.table = mark_all_read(notifications, uncommitted, u, t).table
              /\ \A id \in NotificationIds :
                    LET one == mark_notification_read(notifications, uncommitted,
                                                      u, id, json, t)
                    IN  /\ json # "true" => ClientError(one)
                        /\ json = "true" =>
                              one.table = mark_read(notifications, uncommitted,
                                                    u, id, t).table

\* the mark-all-read endpoint has just refused a flag with 400 while two
\* committed notifications are unread
C30_Witness ==
    /\ result.op = "mark_all_notifications_read"
    /\ result.code = HTTP_400_BAD_REQUEST
    /\ uncommitted = {}
    /\ Len(notifications) = 2
    /\ \A id \in Ids :
          /\ notifications[id].read_at = None
          /\ notifications[id].status = "pending"

(***************************************************************************)
(* Vocabulary of the listing property.                                     *)
(***************************************************************************)
\* the ids of the notifications of user u that a request can see
OwnIds(u) == {i \in Visible : notifications[i].recipient_id = u}

\* the k-th newest of them: the id with k - 1 larger ids among them
Newest(u, k) ==
    CHOOSE i \in OwnIds(u) : Cardinality({j \in OwnIds(u) : j > i}) = k - 1

\* n is total / limit rounded up
IsCeiling(n, total, limit) ==
    /\ n * limit >= total
    /\ (n - 1) * limit < total

(***************************************************************************)
(* C31.  Pagination of the list: for every total >= 0 and every limit in   *)
(* 1..100, total_pages is total / limit rounded up, 0 when total is 0; and *)
(* in every state, for every user, page p >= 1 and limit, the response     *)
(* carries the number of the user's own notifications as total, the        *)
(* rounded-up quotient as total_pages, and as items the user's own         *)
(* notifications from the ((p - 1) * limit + 1)-th newest on, newest       *)
(* first, at most limit of them.                                           *)
(***************************************************************************)
C31_Pagination ==
    /\ CallState =>
          \A total \in 0..(2 * LimitMax + 1), limit \in 1..LimitMax :
             /\ total_pages(total, limit) \in Nat
             /\ IsCeiling(total_pages(total, limit), total, limit)
             /\ total = 0 => total_pages(total, limit) = 0
    /\ \A u \in Users, p \in Pages, limit \in PageLimits :
          LET body == fetch_my_notifications(notifications, uncommitted, u, p, limit)
              total == Cardinality(OwnIds(u))
              offset == (p - 1) * limit
              count == IF total - offset < 0 THEN 0 ELSE Min(limit, total - offset)
          IN  /\ body.total = total
              /\ IsCeiling(body.total_pages, total, limit)
              /\ body.items = [k \in 1..count |-> Newest(u, offset + k)]

\* the second page of one was asked for by a user with two notifications:
\* two pages in all, and the older notification on this one
C31_Witness ==
    /\ result.op = "fetch_my_notifications"
    /\ result.value.total = 2
    /\ result.value.limit = 1
    /\ result.value.page = 2
    /\ result.value.total_pages = 2
    /\ result.value.items = << 1 >>
    /\ Len(notifications) = 2

(***************************************************************************)
(* C32.  One execution of the email worker makes one send attempt: in      *)
(* every state, for every notification a worker can see whose recipient    *)
(* row exists and has an email address and whose recipient's settings do   *)
(* not disable email, send_email_notification calls the email sender,      *)
(* whatever the sender then reports.                                       *)
(***************************************************************************)
C32_EmailSendAttempt ==
    \A id \in Visible, recipient \in Recipients, success \in BOOLEAN :
       LET settings_row == settings[notifications[id].recipient_id]
       IN  (/\ recipient # None
            /\ recipient[1].email # None
            /\ settings_row # None => settings_row[1].email_enabled)
           => send_email_notification(notifications, uncommitted, settings,
                                      id, select, recipient, success).attempted

(***************************************************************************)
(* C33.  execute_external_sending and the in-app task mark an existing     *)
(* notification sent and leave a missing one alone: in every state, for    *)
(* every id and clock reading, when the caller's session can see the       *)
(* notification the tables left are those of one update_status(id, sent)   *)
(* (status sent, sent_at stamped if it was null, nothing else changed),    *)
(* otherwise the tables are unchanged; no exception leaves either.         *)
(***************************************************************************)
C33_SentOrNothing ==
    \A id \in NotificationIds, t \in Times :
       Clock(t) =>
          LET Kept(ran) ==
                  /\ ran.error = ""
                  /\ ran.settings = settings
                  /\ ran.table =
                        IF id \in Visible
                        THEN [notifications EXCEPT
                                 ![id].status = "sent",
                                 ![id].sent_at = IF @ = None THEN Some(t) ELSE @]
                        ELSE notifications
          IN  /\ Kept(execute_external_sending(notifications, uncommitted,
                                               settings, id, t))
              /\ Kept(send_notification_task(notifications, uncommitted,
                                             settings, id, t))

\* execute_external_sending ran for a committed notification, which is sent;
\* another notification, not yet committed, is still pending
C33_Witness ==
    /\ result.op = "execute_external_sending"
    /\ result.error = ""
    /\ result.value[1] \in Visible
    /\ notifications[result.value[1]].status = "sent"
    /\ notifications[result.value[1]].sent_at # None
    /\ \E i \in uncommitted : notifications[i].status = "pending"

(***************************************************************************)
(* C34.  A failed channel send changes nothing: in every state, for every  *)
(* id, contact and value of select, the telegram and the email task whose  *)
(* sender reports failure leave every notification's channels, status and  *)
(* sent_at as they were, and no exception leaves the task, so none can     *)
(* reach the request that created the notification.                        *)
(***************************************************************************)
C34_FailedSendChangesNothing ==
    \A id \in NotificationIds :
       LET Kept(ran) ==
               /\ ran.error = ""
               /\ DOMAIN ran.table = DOMAIN notifications
               /\ \A i \in Ids :
                     /\ ran.table[i].channels = notifications[i].channels
                     /\ ran.table[i].status = notifications[i].status
                     /\ ran.table[i].sent_at = notifications[i].sent_at
       IN  /\ \A h \in BOOLEAN :
                 Kept(send_telegram_notification(notifications, uncommitted,
                                                 settings, id, h, FALSE))
           /\ \A sel \in SelectValues, recipient \in Recipients :
                 Kept(send_email_notification(notifications, uncommitted,
                                              settings, id, sel, recipient, FALSE))

\* the telegram sender was called for a committed notification and reported
\* failure: the notification is pending, unsent, its channels as stored
C34_Witness ==
    /\ result.op = "send_telegram_notification"
    /\ result.error = ""
    /\ result.value.attempted
    /\ ~result.value.success
    /\ result.value.id \in Visible
    /\ notifications[result.value.id].channels = << TELEGRAM >>
    /\ notifications[result.value.id].status = "pending"
    /\ notifications[result.value.id].sent_at = None

(***************************************************************************)
(* Vocabulary of the frame property.                                       *)
(***************************************************************************)
\* the fields of a notification fixed at creation
Identity(row) ==
    [f \in {"id", "recipient_id", "sender_id", "project_id", "type", "title", "body"}
        |-> row[f]]

(***************************************************************************)
(* C35.  No operation after creation changes what a notification is: in    *)
(* every step (mark_read, mark_all_read, update_status, a delivery task, a *)
(* settings update, a later send, a commit) every notification that exists *)
(* before the step exists after it with the same id, recipient_id,         *)
(* sender_id, project_id, type, title and body.                            *)
(***************************************************************************)
C35_IdentityFrame ==
    [][\A i \in Ids :
          /\ i \in DOMAIN notifications'
          /\ Identity(notifications'[i]) = Identity(notifications[i])]_vars

\* a notification read, sent and delivered by telegram is what it was made
C35_Witness ==
    /\ Len(notifications) >= 1
    /\ notifications[1].status = "sent"
    /\ notifications[1].read_at # None
    /\ notifications[1].sent_at # None
    /\ notifications[1].channels = << IN_APP, TELEGRAM >>
    /\ Identity(notifications[1]) =
          Identity(NewNotification(1, 1, Some(2), Some(42), "system_alert",
                                   _render_template("system_alert", SystemPayload).title,
                                   _render_template("system_alert", SystemPayload).body,
                                   << >>))
    /\ settings[1] # None

(***************************************************************************)
(* C36.  Status and timestamps agree in every reachable state: the status  *)
(* of every notification is pending, sent or read; a sent notification has *)
(* sent_at set; a read notification has read_at set; a pending             *)
(* notification has neither set.                                           *)
(***************************************************************************)
C36_StatusMatchesStamps ==
    \A i \in Ids :
       /\ notifications[i].status \in {"pending", "sent", "read"}
       /\ notifications[i].status = "sent" => notifications[i].sent_at # None
       /\ notifications[i].status = "read" => notifications[i].read_at # None
       /\ notifications[i].status = "pending" =>
             /\ notifications[i].sent_at = None
             /\ notifications[i].read_at = None

\* mark_all_read has read a notification that was sent before: it is read
\* and carries both stamps
C36_Witness ==
    /\ result.op = "mark_all_read"
    /\ Len(notifications) >= 1
    /\ notifications[1].status = "read"
    /\ notifications[1].sent_at # None
    /\ notifications[1].read_at # None

(***************************************************************************)
(* Vocabulary of the dispatch property.                                    *)
(***************************************************************************)
\* every task of the bag is there once and is the task of a channel of the
\* list that the settings row enables
OneTaskPerEnabledChannel(bag, notification_id, channels, settings_row) ==
    \A task \in BagToSet(bag) :
       /\ CopiesIn(task, bag) = 1
       /\ \E c \in Range(channels) \cap DOMAIN CHANNEL_TASKS :
             /\ channel_settings(settings_row, c)
             /\ task = Task(CHANNEL_TASKS[c], notification_id)

(***************************************************************************)
(* C37.  The dispatcher enqueues at most one task per distinct channel and *)
(* none for a channel the settings read at dispatch disable: for every     *)
(* channel list (a repeated channel included) and every settings row, the  *)
(* tasks of _dispatch_notification are distinct and each belongs to a      *)
(* channel of the list that the row enables; and after a send the tasks    *)
(* enqueued are one per channel enabled in the recipient's stored settings.*)
(***************************************************************************)
C37_DispatchPerEnabledChannel ==
    /\ CallState =>
          \A id \in NotificationIds, row \in SettingsRows :
             \A channels \in SeqsUpTo(NotificationChannel, MaxChannels) :
                OneTaskPerEnabledChannel(_dispatch_notification(id, channels, row),
                                         id, channels, row)
    /\ (result.op = "send_to_user" /\ result.error = "") =>
          LET id == result.value[1]
          IN  OneTaskPerEnabledChannel(enqueued, id, notifications[id].channels,
                                       settings[notifications[id].recipient_id][1])

\* telegram was requested twice and in-app once by a user who has in-app
\* disabled: telegram is stored twice and one telegram task is enqueued
C37_Witness ==
    /\ result.op = "send_to_user"
    /\ result.error = ""
    /\ notifications[1].channels = << TELEGRAM, TELEGRAM >>
    /\ ~settings[notifications[1].recipient_id][1].in_app_enabled
    /\ enqueued = SetToBag({Task("send_telegram_notification", 1)})

(***************************************************************************)
(* C38.  The tasks the dispatcher enqueued never change channels: in every *)
(* state, the channel of every task enqueued for a notification is in the  *)
(* notification's channels, which are those stored at creation, and        *)
(* running the task, whatever the contact and the sender's answer, leaves  *)
(* the channels of every notification as they are.  A notification whose   *)
(* telegram send succeeded and one whose send failed or was never made     *)
(* carry the same channels.                                                *)
(***************************************************************************)
C38_EnqueuedTasksKeepChannels ==
    \A task \in BagToSet(enqueued) :
       LET id == task.notification_id
           Kept(ran) ==
               \A i \in Ids : ran.table[i].channels = notifications[i].channels
       IN  /\ id \in Ids
           /\ \E c \in Range(notifications[id].channels) \cap DOMAIN CHANNEL_TASKS :
                 CHANNEL_TASKS[c] = task.task
           /\ task.task = "send_notification_task" =>
                 \A t \in Times :
                    Kept(send_notification_task(notifications, uncommitted,
                                                settings, id, t))
           /\ task.task = "send_telegram_notification" =>
                 \A h \in BOOLEAN, ok \in BOOLEAN :
                    Kept(send_telegram_notification(notifications, uncommitted,
                                                    settings, id, h, ok))

\* the enqueued telegram task of a committed notification has run and its
\* send succeeded: the channels are the two stored at creation
C38_Witness ==
    /\ result.op = "send_telegram_notification"
    /\ result.value.attempted
    /\ result.value.success
    /\ result.value.id \in Visible
    /\ notifications[result.value.id].channels = << EMAIL, TELEGRAM >>

(***************************************************************************)
(* C39.  Under fair execution of the enqueued tasks and of the commit,     *)
(* every notification created with in-app among its channels eventually    *)
(* has sent_at set.                                                        *)
(***************************************************************************)
C39_InAppEventuallySent ==
    \A id \in NotificationIds :
       (id \in Ids /\ IN_APP \in Range(notifications[id].channels))
          ~> (id \in Ids /\ notifications[id].sent_at # None)

(***************************************************************************)
(* C40.  A project send with the single recipient r does what a send to r  *)
(* does: from every starting state, for every template key, payload and    *)
(* channel list, send_to_project_participants on a project whose recipient *)
(* set is {r} fails exactly when send_to_user for r fails, with the same   *)
(* error, and otherwise both create one pending notification with the same *)
(* channels, title and body, hand over the same tasks and return the same  *)
(* delivery code.                                                          *)
(***************************************************************************)
C40_SingleRecipientEquivalence ==
    CallState =>
       \A r \in Users, k \in TemplateKeys, p \in Payloads, c \in RequestedChannels :
          \A cfg \in SingleRecipientProjects(r) :
             LET user == send_to_user(notifications, settings, r, Some(2), k, p,
                                      Some(42), c)
                 project == send_to_project_participants(notifications, settings,
                                Some(42), cfg[1], cfg[2], Some(2), k, p, cfg[3],
                                c, << r >>)
             IN  /\ project.error = user.error
                 /\ user.error = "" =>
                       /\ Len(user.created) = 1
                       /\ Len(project.created) = 1
                       /\ user.created[1].status = "pending"
                       /\ project.created[1].status = "pending"
                       /\ project.created[1].recipient_id = r
                       /\ project.created[1].channels = user.created[1].channels
                       /\ project.created[1].title = user.created[1].title
                       /\ project.created[1].body = user.created[1].body
                       /\ project.dispatched = user.dispatched
                       /\ project.code = user.code

\* a project send reached user 2 alone, who has in-app disabled: telegram is
\* stored, one telegram task is enqueued, the code is PARTIAL, and this is
\* what send_to_user returns for user 2
C40_Witness ==
    /\ result.op = "send_to_project_participants"
    /\ result.error = ""
    /\ result.code = PARTIAL
    /\ Len(notifications) = 1
    /\ notifications[1].recipient_id = 2
    /\ notifications[1].channels = << TELEGRAM >>
    /\ enqueued = SetToBag({Task("send_telegram_notification", 1)})
    /\ LET user == send_to_user(<< >>, settings, 2, Some(2), "system_alert",
                                SystemPayload, Some(42), Some(<< IN_APP, TELEGRAM >>))
       IN  /\ user.created = notifications
           /\ user.dispatched = enqueued
           /\ user.code = result.code

====
